---- MODULE Spec2Model ----
(***************************************************************************)
(* The URL table (wpull/database.py), the URL item handed to a session     *)
(* (wpull/engine.py, URLItem), the engine's worker loop (wpull/engine.py,  *)
(* Engine) and the web session that processes one item                     *)
(* (wpull/processor.py, WebProcessorSession).                              *)
(*                                                                         *)
(* The table is a sequence of rows in insertion (rowid) order.  A URL is   *)
(* a number 1..NumUrls; NULL is SQL NULL / Python None.                    *)
(*                                                                         *)
(* Spec follows the engine, its workers and their sessions; it leaves the  *)
(* error statistics to SpecExit, and each session's requests, redirect     *)
(* budget and writer calls to SpecSession.  SpecAPI calls the table and    *)
(* one item, SpecResume stops and restarts a run, SpecFilter and SpecTries *)
(* crawl a server with a fixed plan under the level filter and the limit   *)
(* of tries, and SpecHook calls the hooks of one HookableMixin             *)
(* (wpull/hook.py).  SpecStorage adds a storage that fails to SpecFilter,  *)
(* SpecCallbacks dispatches wait_time under each hook API version,         *)
(* SpecHookedUrl adds the URLs a get_urls hook returns, SpecApp runs a     *)
(* series of pipelines that is stopped, SpecPool acquires and releases the *)
(* connections of one host, SpecWriter runs concurrent file writer         *)
(* sessions (wpull/writer.py) and SpecWaiter the sessions that share the   *)
(* processor's waiter.                                                     *)
(***************************************************************************)
EXTENDS Integers, Sequences, FiniteSets, TLC

\* ------------------------------------------------------------- bounds
NumUrls == 2
NumWorkers == 2
MaxTries == 2
MaxLinks == 2
MaxOps == 3
MaxLevel == 1

\* ---------------------------------------------------------- constants
NULL == 0

Urls == 1..NumUrls
Workers == 1..NumWorkers
\* The seed sets a run may start from: the first URL, or the first two.
SeedSets == {1..n : n \in 1..2}

todo == "todo"
in_progress == "in_progress"
done == "done"
error == "error"
skipped == "skipped"
Status == {todo, in_progress, done, error, skipped}

\* Only 200 counts as a document.
DOCUMENT_STATUS_CODES_OK_ONLY == {200}
\* WebProcessor.DOCUMENT_STATUS_CODES.
DOCUMENT_STATUS_CODES == {200, 206, 304}
\* 404 is not among the permanent errors.
NO_DOCUMENT_STATUS_CODES_WITHOUT_404 == {401, 403, 405, 410}
\* WebProcessor.NO_DOCUMENT_STATUS_CODES.
NO_DOCUMENT_STATUS_CODES == {401, 403, 404, 405, 410}
\* The status codes the modelled servers answer with: one of each class the
\* session tells apart.
ResponseCodes == {200, 301, 404, 500}
RedirectCodes == {301}
FetchErrors == {"ConnectionRefused", "DNSNotFound", "NetworkError", "ProtocolError"}
\* Errors a session does not handle: they leave process() and reach the
\* worker's except clause.
UnexpectedErrors == {"ValueError", "Exception"}

\* ExitStatus.
generic_error == 1
parser_error == 2
file_io_error == 3
network_failure == 4
ssl_verification_error == 5
protocol_error == 7
server_error == 8
ExitCodes == {generic_error, parser_error, file_io_error, network_failure,
              ssl_verification_error, protocol_error, server_error}
\* Engine.ERROR_CODE_MAP; AssertionError and Exception are not among its keys.
ErrorTypes ==
    {"ServerError", "ProtocolError", "SSLVerficationError", "DNSNotFound",
     "ConnectionRefused", "NetworkError", "OSError", "IOError", "ValueError"}
ERROR_CODE_MAP ==
    [e \in ErrorTypes |->
        CASE e = "ServerError" -> server_error
          [] e = "ProtocolError" -> protocol_error
          [] e = "SSLVerficationError" -> ssl_verification_error
          [] e \in {"DNSNotFound", "ConnectionRefused", "NetworkError"} -> network_failure
          [] e \in {"OSError", "IOError"} -> file_io_error
          [] e = "ValueError" -> parser_error]

\* A keyword-argument dict with no keys.
NoKwargs == <<>>
\* An absent optional argument (level=None) and a given one.
None == <<>>
Some(x) == <<x>>

\* ---------------------------------------------------- the URL table
\* A freshly inserted row: INSERT (url, status) and the column defaults.
NewRow(u, s) ==
    [url |-> u, status |-> s, try_count |-> 0, level |-> 0, top_url |-> NULL,
     status_code |-> NULL, referrer |-> NULL, inline |-> NULL]

RowIndexes(t, u) == {i \in 1..Len(t) : t[i].url = u}
HasUrl(t, u) == RowIndexes(t, u) # {}
TableUrls(t) == {t[i].url : i \in 1..Len(t)}
\* SELECT * FROM urls WHERE url = ? (fetchone).
GetItem(t, u) == t[CHOOSE i \in RowIndexes(t, u) : \A j \in RowIndexes(t, u) : i <= j]

\* INSERT with no conflict clause and no key: a second row for the URL.
InsertAlways(t, u) == Append(t, NewRow(u, todo))
\* INSERT OR REPLACE: the old row is deleted and a default row takes its place.
InsertOrReplace(t, u) ==
    Append(SelectSeq(t, LAMBDA r : r.url # u), NewRow(u, todo))
\* INSERT OR IGNORE INTO urls (url, status) VALUES (?, 'todo').
InsertOrIgnore(t, u) ==
    IF HasUrl(t, u) THEN t ELSE Append(t, NewRow(u, todo))

\* UPDATE urls SET k = v WHERE url = ?, for every (k, v) of kwargs.
SetColumns(t, u, kwargs) ==
    [i \in 1..Len(t) |->
        IF t[i].url = u
        THEN [c \in DOMAIN t[i] |-> IF c \in DOMAIN kwargs THEN kwargs[c] ELSE t[i][c]]
        ELSE t[i]]

RECURSIVE InsertAll(_, _)
InsertAll(t, urls) ==
    IF urls = <<>> THEN t
    ELSE InsertAll(InsertOrIgnore(t, Head(urls)), Tail(urls))

RECURSIVE UpdateAll(_, _, _)
UpdateAll(t, urls, kwargs) ==
    IF urls = <<>> THEN t
    ELSE UpdateAll(SetColumns(t, Head(urls), kwargs), Tail(urls), kwargs)

\* The attributes reach only the rows this call inserted.
AddNewOnly(t, urls, kwargs) ==
    UpdateAll(InsertAll(t, urls),
              SelectSeq(urls, LAMBDA u : ~HasUrl(t, u)), kwargs)
\* SQLiteURLTable.add: all the inserts, then all the updates, in one transaction.
Add(t, urls, kwargs) == UpdateAll(InsertAll(t, urls), urls, kwargs)

\* The rows get_and_update's SELECT may return (LIMIT 1 with no ORDER BY).
Candidates(t, status, level) ==
    {i \in 1..Len(t) :
        /\ t[i].status = status
        /\ level # None => t[i].level < level[1]}

\* The row is returned and its status is left as it was.
MarkRowNot(t, i, new_status) == t
\* get_and_update's UPDATE urls SET status = ? WHERE url = ? on the selected row.
MarkRow(t, i, new_status) ==
    IF new_status # "" THEN SetColumns(t, t[i].url, [status |-> new_status]) ELSE t

\* The row is returned as the SELECT found it.
ReturnedRowStale(t, t2, i, new_status) == t[i]
\* What get_and_update returns for row i of t, t2 being the table after its
\* UPDATE: with a new status the row is read again, else the selected row.
ReturnedRow(t, t2, i, new_status) ==
    IF new_status # "" THEN GetItem(t2, t[i].url) ELSE t[i]

\* Every statement is committed as it is executed.
TransactionAutocommit(t, t2, failed) == t2
\* "with self._connection": the block's statements took t to t2; they are
\* committed when the block ends, rolled back when an exception leaves it.
Transaction(t, t2, failed) == IF failed THEN t ELSE t2

\* The try count is left as it is.
IncrementTryCountNever(t, u) == t
\* UPDATE urls SET try_count = try_count + 1 WHERE url = ?.
IncrementTryCount(t, u) ==
    [i \in 1..Len(t) |->
        IF t[i].url = u THEN [t[i] EXCEPT !.try_count = @ + 1] ELSE t[i]]

\* SQLiteURLTable.update.
Update(t, u, increment_try_count, kwargs) ==
    SetColumns(IF increment_try_count THEN IncrementTryCount(t, u) ELSE t, u, kwargs)

\* SQLiteURLTable.count.
Count(t) == Len(t)

\* UPDATE urls SET status = 'todo' with no WHERE clause.
ReleaseAll(t) == [i \in 1..Len(t) |-> [t[i] EXCEPT !.status = todo]]
\* DELETE FROM urls WHERE status = 'in_progress'.
ReleaseDeleting(t) == SelectSeq(t, LAMBDA r : r.status # in_progress)
\* SQLiteURLTable.release: UPDATE urls SET status = 'todo' WHERE status = 'in_progress'.
Release(t) ==
    [i \in 1..Len(t) |->
        IF t[i].status = in_progress THEN [t[i] EXCEPT !.status = todo] ELSE t[i]]

\* All the orders in which a set of URLs can be handed over as a tuple.
Orderings(S) ==
    {s \in [1..Cardinality(S) -> S] : \A i, j \in 1..Cardinality(S) : i # j => s[i] # s[j]}

\* ------------------------------------------------------- the URL item
\* URLItem.__init__ over the record the table returned.  incs counts the
\* try_count increments made through this item.
NewItem(row) ==
    [url |-> row.url, level |-> row.level, top_url |-> row.top_url,
     try_count |-> row.try_count, processed |-> FALSE,
     try_count_incremented |-> FALSE, incs |-> 0]
NoItem ==
    [url |-> NULL, level |-> 0, top_url |-> NULL, try_count |-> 0,
     processed |-> FALSE, try_count_incremented |-> FALSE, incs |-> 0]

\* A call's outcome: the item, the table, and whether it returned (ok) or raised.
Outcome(it, t, ok) == [item |-> it, table |-> t, ok |-> ok]

\* skip() that counts a try.
ItemSkipCounting(it, t) ==
    Outcome([it EXCEPT !.processed = TRUE],
            Update(t, it.url, TRUE, [status |-> skipped]), TRUE)
\* URLItem.skip.
ItemSkip(it, t) ==
    Outcome([it EXCEPT !.processed = TRUE],
            Update(t, it.url, FALSE, [status |-> skipped]), TRUE)

\* set_status without its opening assertion.
ItemSetStatusUnchecked(it, t, status, increment_try_count) ==
    Outcome([it EXCEPT !.try_count_incremented = @ \/ increment_try_count,
                       !.processed = TRUE,
                       !.incs = @ + (IF increment_try_count THEN 1 ELSE 0)],
            Update(t, it.url, increment_try_count, [status |-> status]), TRUE)
\* URLItem.set_status: the assertion raises before anything is stored.
ItemSetStatus(it, t, status, increment_try_count) ==
    IF it.try_count_incremented
    THEN Outcome(it, t, FALSE)
    ELSE Outcome([it EXCEPT !.try_count_incremented = increment_try_count,
                            !.processed = TRUE,
                            !.incs = @ + (IF increment_try_count THEN 1 ELSE 0)],
                 Update(t, it.url, increment_try_count, [status |-> status]), TRUE)

\* URLItem.set_value.
ItemSetValue(it, t, kwargs) == Update(t, it.url, FALSE, kwargs)

\* The child starts at its parent's own level.
LinkedKwargsSameLevel(it) ==
    [level |-> it.level, referrer |-> it.url,
     top_url |-> IF it.top_url # NULL THEN it.top_url ELSE it.url]
\* The keyword arguments of add_linked_url_infos.
LinkedKwargs(it) ==
    [level |-> it.level + 1, referrer |-> it.url,
     top_url |-> IF it.top_url # NULL THEN it.top_url ELSE it.url]
\* The keyword arguments of add_inline_url_infos.
InlineKwargs(it) ==
    [inline |-> 1, level |-> it.level + 1, referrer |-> it.url,
     top_url |-> IF it.top_url # NULL THEN it.top_url ELSE it.url]

\* URLItem.add_inline_url_infos and URLItem.add_linked_url_infos.
ItemAddInline(it, t, urls) == Add(t, urls, InlineKwargs(it))
ItemAddLinked(it, t, urls) == Add(t, urls, LinkedKwargs(it))

\* ---------------------------------------------------------- the state
VARIABLES
    url_table,          \* the urls table: a sequence of rows
    config,             \* retry_connrefused, retry_dns_error, the concurrency, the level limit
    started,            \* Engine.__call__ has released the in-progress rows
    stopping,           \* Engine._stopping
    done_event,         \* Engine._done_event is set
    num_worker_busy,    \* Engine._num_worker_busy
    pc,                 \* where each worker's _process_input stands
    item,               \* each worker's URLItem (NoItem: none)
    rcs,                \* each worker's rich client session
    todo_dispatched,    \* per URL: how many get_and_update(todo) calls returned it
    last,               \* the operation of the last step and its arguments
    seeds,              \* the URLs the table was seeded with
    ops,                \* how many calls the table's caller has made
    sem,                \* Engine._worker_semaphore: the permits left
    exit_code,          \* Engine._exit_code
    recorded,           \* the codes _update_exit_code was called with
    errors,             \* the error types counted in processor.statistics.errors
    stop_requested,     \* Engine.stop called from outside the workers: "", "stop", "force"
    server,             \* what the network answers: anything, or a fixed plan
    ses,                \* the requests and results of the sessions SpecSession follows
    callback_hooks,     \* HookableMixin.callback_hooks: hook name -> callback or None
    version,            \* Callbacks._version
    waiter,             \* the processor's waiter: the errors counted since its last reset
    files,              \* the files on disk and the file writer sessions
    pool,               \* ConnectionPool: the connections of one host and who waits
    app                 \* Application: its pipelines and how far each has come

vars ==
    <<url_table, config, started, stopping, done_event, num_worker_busy,
      pc, item, rcs, todo_dispatched, last, seeds, ops,
      sem, exit_code, recorded, errors, stop_requested, server, ses, callback_hooks,
      version, waiter, files, pool, app>>

\* What the engine and the table leave alone.
aux_vars == <<version, waiter, files, pool, app>>

engine_vars ==
    <<started, stopping, done_event, num_worker_busy, pc, rcs, todo_dispatched, seeds,
      sem, stop_requested>>
\* The exit code and what it is computed from.
exit_vars == <<exit_code, recorded, errors>>

\* The step's record: the operation, who ran it and on which URL.  Steps
\* that no property asks about leave NoOp.
Op(name, w, u) == [op |-> name, w |-> w, url |-> u]
NoOp == Op("", 0, NULL)

\* ---------------------------------------------------------- the network
\* A server that may answer anything, and the plans of a server that answers
\* every request for a URL alike: a status code and the links of its page.
AnyServer ==
    [fixed |-> FALSE, answer |-> [u \in Urls |-> 200], links |-> [u \in Urls |-> {}]]
ServerPlans ==
    [fixed : {TRUE}, answer : [Urls -> {200, 404, 500}], links : [Urls -> SUBSET Urls]]

\* ------------------------------------------- the rich client session
\* What a new rich client session stands at: the robots.txt of the host is
\* still to be fetched ("robots"), the request may go out ("ready"), or the
\* cached robots.txt denies it and there is no next request ("done").
NewSessionStates == {"robots", "ready", "done"}
\* After a robots.txt response: fetch robots.txt again (a redirect, a retry),
\* allowed, or denied.
AfterRobotsStates == {"robots", "ready", "done"}
\* RedirectTracker.is_redirect for a response's status code.
IsRedirect(code) == code \in RedirectCodes
\* After a response to the item's request: a redirect leaves a next request,
\* anything else ends the session.
AfterResponse(code) == IF IsRedirect(code) THEN "ready" ELSE "done"

\* The URL filters' verdict on an item: anything, or under a fixed plan the
\* recursion level filter alone (level <= max level).
Verdicts(it) == IF server.fixed THEN {it.level <= config.max_level} ELSE BOOLEAN
\* How process() starts: "rejected" by the filters, or the state of the new
\* rich client session (under a fixed plan no robots.txt is consulted).
SessionStarts(it) ==
    IF server.fixed
    THEN {IF it.level <= config.max_level /\ it.try_count < MaxTries
          THEN "ready" ELSE "rejected"}
    ELSE {"rejected"} \cup NewSessionStates
\* The status codes a request for u may be answered with.
Answers(u) == IF server.fixed THEN {server.answer[u]} ELSE ResponseCodes

\* ------------------------------------------------------ the exit code
\* The larger of the two codes is kept.
UpdateExitCodeMax(cur, code) ==
    IF code # 0
    THEN IF cur # 0 THEN (IF cur > code THEN cur ELSE code) ELSE code
    ELSE cur
\* Engine._update_exit_code.
UpdateExitCode(cur, code) ==
    IF code # 0
    THEN IF cur # 0 THEN (IF cur < code THEN cur ELSE code) ELSE code
    ELSE cur

\* The keys of ERROR_CODE_MAP with the general classes first.
ERROR_CODE_ORDER_GENERAL_FIRST ==
    <<"ValueError", "IOError", "OSError", "NetworkError", "ConnectionRefused",
      "DNSNotFound", "SSLVerficationError", "ProtocolError", "ServerError">>
\* The keys of ERROR_CODE_MAP in the order of the OrderedDict.
ERROR_CODE_ORDER ==
    <<"ServerError", "ProtocolError", "SSLVerficationError", "DNSNotFound",
      "ConnectionRefused", "NetworkError", "OSError", "IOError", "ValueError">>

\* The class an error class is derived from (wpull/errors.py and the built-in
\* exceptions; IOError is another name of OSError).
BaseClass(c) ==
    CASE c \in {"ServerError", "ProtocolError"} -> "ValueError"
      [] c \in {"SSLVerficationError", "NetworkError", "IOError"} -> "OSError"
      [] c \in {"ConnectionRefused", "DNSNotFound", "NetworkTimedOut"} -> "NetworkError"
      [] OTHER -> "Exception"
SameClass(c, d) == c = d \/ {c, d} = {"OSError", "IOError"}
\* isinstance(error, error_type) for an error of class c.
RECURSIVE IsInstance(_, _)
IsInstance(c, error_type) ==
    \/ SameClass(c, error_type)
    \/ c # "Exception" /\ IsInstance(BaseClass(c), error_type)

\* No error type maps to a code.
ErrorCodeNone(e) == 0
\* The loop of _update_exit_code_from_error from the i-th entry on: the code
\* of the first entry the error is an instance of, generic_error after the
\* last entry.
RECURSIVE FirstMatch(_, _)
FirstMatch(e, i) ==
    IF i > Len(ERROR_CODE_ORDER) THEN generic_error
    ELSE IF IsInstance(e, ERROR_CODE_ORDER[i]) THEN ERROR_CODE_MAP[ERROR_CODE_ORDER[i]]
    ELSE FirstMatch(e, i + 1)
\* Engine._update_exit_code_from_error: the code the exit code is updated with.
ErrorCode(e) == FirstMatch(e, 1)

\* -------------------------------------------------------- the semaphore
\* A permit is handed out whatever the count.
CanAcquireAlways(s) == TRUE
\* toro.BoundedSemaphore.acquire returns at once only while a permit is left.
CanAcquire(s) == s > 0

\* stop(force) leaves the done event as it is.
StopNeverSetsDone(is_set, force) == is_set
\* Engine.stop: the done event after stop(force).
StopSetsDone(is_set, force) == is_set \/ force

\* ------------------------------------------------------------- Engine
\* The table a run starts from: the seeds, added in the order given; a
\* table kept from an interrupted run may hold its first seed in_progress.
SeedTables(S) ==
    {[i \in 1..Cardinality(S) |-> NewRow(i, IF i = 1 THEN s ELSE todo)] :
        s \in {todo, in_progress}}

\* No session followed yet: no request out, no redirect budget, no request
\* URL visited, no answer, no status code stored, the writer not asked anything, no
\* robots.txt verdict, no error raised, no request for the item itself sent,
\* and no session of this run has reached a fetch.
NoSession ==
    [request |-> NULL, budget |-> 0, visited |-> {}, answers |-> <<>>,
     codes |-> <<>>, writer |-> "",
     robots |-> "", raised |-> {}, main_requests |-> 0, attempts |-> 0]
\* HookableMixin.__init__: no hook is registered.
NoHooks == [n \in {} |-> ""]
\* No file on disk and no writer session.
NoFiles == [disk |-> {}, sessions |-> <<>>]
\* LinearWaiter(): no error counted, and no session using the waiter.
NoWaiter == [current |-> 0, sessions |-> <<>>]
\* ConnectionPool(): no connection yet, ready or in use, and nobody waiting.
NoPool == [ready |-> {}, busy |-> {}, waiting |-> {}]
\* No application.
NoApp == [pipelines |-> <<>>]

\* Engine.__init__: nothing started, every permit of the semaphore free, no
\* worker coroutine yet (pc "none").
EngineInit ==
    /\ started = FALSE
    /\ stopping = FALSE
    /\ done_event = FALSE
    /\ num_worker_busy = 0
    /\ pc = [w \in Workers |-> "none"]
    /\ item = [w \in Workers |-> NoItem]
    /\ rcs = [w \in Workers |-> "none"]
    /\ todo_dispatched = [u \in Urls |-> 0]
    /\ sem = config.concurrent
    /\ exit_code = 0
    /\ recorded = {}
    /\ errors = {}
    /\ stop_requested = ""
    /\ ses = NoSession
    /\ callback_hooks = NoHooks
    /\ version = 2
    /\ waiter = NoWaiter
    /\ files = NoFiles
    /\ pool = NoPool
    /\ app = NoApp

\* The settings a run is started with: each retry option on in one and off
\* in the other, and every concurrency up to NumWorkers.
Configs ==
    {[retry_connrefused |-> r, retry_dns_error |-> ~r, concurrent |-> c,
      max_level |-> MaxLevel] :
        r \in BOOLEAN, c \in 1..NumWorkers}

Init ==
    /\ seeds \in SeedSets
    /\ url_table \in SeedTables(seeds)
    /\ config \in Configs
    /\ EngineInit
    /\ server = AnyServer
    /\ last = NoOp
    /\ ops = 0

\* Engine.__call__: _release_in_progress, then _run_workers.
EngineStart ==
    /\ ~started
    /\ started' = TRUE
    /\ url_table' = Release(url_table)
    /\ last' = [op |-> "release", w |-> 0, url |-> NULL,
                released |-> {url_table[i].url : i \in Candidates(url_table, in_progress, None)}]
    /\ UNCHANGED <<aux_vars, ses, callback_hooks, config, stopping, done_event, num_worker_busy, pc, item, rcs,
                   todo_dispatched, seeds, ops, server, sem, stop_requested, exit_vars>>

\* _run_workers starts worker w's _process_input once it has acquired the
\* semaphore; a worker that sleeps in its loop ("idle") holds its permit.
TakePermit(w) ==
    IF pc[w] = "none"
    THEN CanAcquire(sem) /\ sem' = sem - 1
    ELSE pc[w] = "idle" /\ sem' = sem

\* The error rows are looked up before the todo rows.
NextStatusErrorFirst(t) ==
    IF Candidates(t, error, None) # {} THEN error
    ELSE IF Candidates(t, todo, None) # {} THEN todo
    ELSE ""
\* Only the todo rows are looked up.
NextStatusTodoOnly(t) == IF Candidates(t, todo, None) # {} THEN todo ELSE ""
\* Engine._get_next_url_record: a todo row first, an error row only when
\* the todo lookup raised NotFound.
NextStatus(t) ==
    IF Candidates(t, todo, None) # {} THEN todo
    ELSE IF Candidates(t, error, None) # {} THEN error
    ELSE ""

\* The record is looked up whether the engine is stopping or not.
NextRecordStatusAnyway(t, stop) == NextStatus(t)
\* _process_input's lookup: no record is taken once the engine is stopping.
NextRecordStatus(t, stop) == IF stop THEN "" ELSE NextStatus(t)

\* process()'s loop head on table t with the rich client session at s: the
\* loop ends when the session is done; else the filters are asked about the
\* next request, a rejected item is skipped, an accepted one is fetched.
LoopHead(w, it, t, s, verdict) ==
    /\ rcs' = [rcs EXCEPT ![w] = s]
    /\ IF s = "done"
       THEN /\ url_table' = t
            /\ item' = [item EXCEPT ![w] = it]
            /\ pc' = [pc EXCEPT ![w] = "finish"]
       ELSE IF ~verdict
       THEN /\ url_table' = ItemSkip(it, t).table
            /\ item' = [item EXCEPT ![w] = ItemSkip(it, t).item]
            /\ pc' = [pc EXCEPT ![w] = "finish"]
       ELSE /\ url_table' = t
            /\ item' = [item EXCEPT ![w] = it]
            /\ pc' = [pc EXCEPT ![w] = "fetch"]

\* WebProcessorSession.process up to its first fetch.  start is "rejected"
\* (the filters reject the item), "done" (the new rich client session is done
\* at once), or the state the new rich client session stands at.  The fetch
\* rule passes no item that has used up its tries.
ProcessStart(w, it, t, start, verdict) ==
    /\ it.try_count >= MaxTries => start = "rejected"
    /\ IF start \in {"rejected", "done"}
       THEN /\ url_table' = ItemSkip(it, t).table
            /\ item' = [item EXCEPT ![w] = ItemSkip(it, t).item]
            /\ pc' = [pc EXCEPT ![w] = "finish"]
            /\ rcs' = [rcs EXCEPT ![w] = IF start = "done" THEN "done" ELSE "none"]
       ELSE LoopHead(w, it, t, start, verdict)

\* Engine._process_input with a record: the record is taken and marked, the
\* busy count raised, the URLItem built and handed to the session, which runs
\* to its first fetch.
Dispatch(w) ==
    /\ started /\ TakePermit(w)
    /\ NextRecordStatus(url_table, stopping) # ""
    /\ \E i \in Candidates(url_table, NextRecordStatus(url_table, stopping), None) :
        LET u == url_table[i].url
            t2 == MarkRow(url_table, i, in_progress)
            it == NewItem(ReturnedRow(url_table, t2, i, in_progress))
        IN  /\ \E start \in SessionStarts(it), verdict \in Verdicts(it) :
                ProcessStart(w, it, t2, start, verdict)
            /\ todo_dispatched' =
                   IF NextRecordStatus(url_table, stopping) = todo
                   THEN [todo_dispatched EXCEPT ![u] = @ + 1]
                   ELSE todo_dispatched
    /\ num_worker_busy' = num_worker_busy + 1
    /\ last' = NoOp
    /\ UNCHANGED <<aux_vars, ses, callback_hooks, config, started, stopping, done_event, seeds, ops, server,
                   stop_requested, exit_vars>>

\* Engine._process_input with no record: stop(force=True) when no worker is
\* busy, then sleep and look again.
Poll(w) ==
    /\ started /\ TakePermit(w)
    /\ NextRecordStatus(url_table, stopping) = ""
    /\ IF num_worker_busy = 0
       THEN stopping' = TRUE /\ done_event' = StopSetsDone(done_event, TRUE)
       ELSE UNCHANGED <<stopping, done_event>>
    /\ pc' = [pc EXCEPT ![w] = "idle"]
    /\ last' = NoOp
    /\ UNCHANGED <<aux_vars, ses, callback_hooks, url_table, config, started, num_worker_busy, item, rcs,
                   todo_dispatched, seeds, ops, server, stop_requested, exit_vars>>

\* Every fetch error is retried.
ErrorStatusRetryAll(e, cfg) == error
\* WebProcessorSession._handle_error: the status a fetch error gives the item.
ErrorStatus(e, cfg) ==
    IF e = "ConnectionRefused" /\ ~cfg.retry_connrefused THEN skipped
    ELSE IF e = "DNSNotFound" /\ ~cfg.retry_dns_error THEN skipped
    ELSE error

\* What a page hands to add_inline_url_infos and add_linked_url_infos.
ScrapeChoices ==
    {c \in (SUBSET Urls) \X (SUBSET Urls) :
        Cardinality(c[1]) + Cardinality(c[2]) <= MaxLinks}
\* The inline and linked URLs the page of u holds.
PageLinks(u) ==
    IF server.fixed THEN {<<{}, server.links[u]>>} ELSE ScrapeChoices

\* Only the inline URLs are added.
ScrapeInlineOnly(it, t, inline_urls, linked_urls) == ItemAddInline(it, t, inline_urls)
\* WebProcessorSession._scrape_document: the inline URLs are added, then the
\* linked ones.
Scrape(it, t, inline_urls, linked_urls) ==
    ItemAddLinked(it, ItemAddInline(it, t, inline_urls), linked_urls)

\* The session's call of URLItem.set_status, which ends _process_one with
\* is_done; a raised assertion leaves process().
SessionSetStatus(w, t, status) ==
    LET r == ItemSetStatus(item[w], t, status, TRUE)
    IN  /\ url_table' = r.table
        /\ item' = [item EXCEPT ![w] = r.item]
        /\ pc' = [pc EXCEPT ![w] = IF r.ok THEN "finish" ELSE "raised"]

\* _process_one when the fetch raises NetworkError or ProtocolError. The
\* count of the error's type in statistics.errors reaches nothing but the
\* exit code, and is followed by RecordError in SpecExit.
FetchError(w) ==
    /\ pc[w] = "fetch" /\ ~server.fixed
    /\ \E e \in FetchErrors : SessionSetStatus(w, url_table, ErrorStatus(e, config))
    /\ last' = NoOp
    /\ UNCHANGED <<aux_vars, ses, callback_hooks, config, started, stopping, done_event, num_worker_busy, rcs,
                   todo_dispatched, seeds, ops, server, sem, stop_requested, exit_vars>>

\* _process_one when the response is the robots.txt the rich client asked
\* for: it is not handled, and process()'s loop goes on.
FetchRobots(w) ==
    /\ pc[w] = "fetch" /\ rcs[w] = "robots"
    /\ \E s \in AfterRobotsStates, verdict \in Verdicts(item[w]) :
        LoopHead(w, item[w], url_table, s, verdict)
    /\ last' = NoOp
    /\ UNCHANGED <<aux_vars, ses, callback_hooks, config, started, stopping, done_event, num_worker_busy,
                   todo_dispatched, seeds, ops, server, sem, stop_requested, exit_vars>>

\* _process_one with a response to the item's request: _handle_response,
\* and for a redirect process()'s loop goes on.
FetchResponse(w) ==
    /\ pc[w] = "fetch" /\ rcs[w] = "ready"
    /\ \E code \in Answers(item[w].url) :
        LET t1 == ItemSetValue(item[w], url_table, [status_code |-> code])
        IN  IF IsRedirect(code)
            THEN /\ \E verdict \in Verdicts(item[w]) :
                        LoopHead(w, item[w], t1, AfterResponse(code), verdict)
                 /\ last' = NoOp
            ELSE /\ rcs' = [rcs EXCEPT ![w] = AfterResponse(code)]
                 /\ IF code \in DOCUMENT_STATUS_CODES
                    THEN \E c \in PageLinks(item[w].url) :
                         \E inline_urls \in Orderings(c[1]),
                            linked_urls \in Orderings(c[2]) :
                             /\ SessionSetStatus(w,
                                    Scrape(item[w], t1, inline_urls, linked_urls), done)
                             /\ last' = [op |-> "document", w |-> w,
                                         url |-> item[w].url,
                                         inline |-> c[1], linked |-> c[2]]
                    ELSE IF code \in NO_DOCUMENT_STATUS_CODES
                    THEN SessionSetStatus(w, t1, skipped) /\ last' = NoOp
                    ELSE SessionSetStatus(w, t1, error) /\ last' = NoOp
    /\ UNCHANGED <<aux_vars, ses, callback_hooks, config, started, stopping, done_event, num_worker_busy,
                   todo_dispatched, seeds, ops, server, sem, stop_requested, exit_vars>>

\* The end of _process_input for worker w.  fatal: an exception reached the
\* except clause with error type e: the exit code is updated and the engine
\* stopped with force.  Then the busy count is lowered, the semaphore released
\* and the worker's coroutine ends.
EndWorker(w, fatal, e) ==
    /\ IF fatal
       THEN /\ exit_code' = UpdateExitCode(exit_code, ErrorCode(e))
            /\ recorded' = recorded \cup {ErrorCode(e)}
            /\ stopping' = TRUE
            /\ done_event' = StopSetsDone(done_event, TRUE)
       ELSE UNCHANGED <<exit_code, recorded, stopping, done_event>>
    /\ num_worker_busy' = num_worker_busy - 1
    /\ sem' = sem + 1
    /\ pc' = [pc EXCEPT ![w] = "none"]
    /\ item' = [item EXCEPT ![w] = NoItem]
    /\ rcs' = [rcs EXCEPT ![w] = "none"]
    /\ last' = IF fatal THEN Op("fatal", w, item[w].url) ELSE NoOp

\* Engine._process_input after the session: the assertion that the item was
\* processed (an AssertionError is fatal), then the end of the worker.
Finish(w) ==
    /\ pc[w] \in {"finish", "raised"}
    /\ EndWorker(w, pc[w] = "raised" \/ ~item[w].processed, "AssertionError")
    /\ UNCHANGED <<aux_vars, ses, callback_hooks, url_table, config, started, todo_dispatched, seeds, ops, server,
                   errors, stop_requested>>

\* _process_one when the fetch raises an error that is neither NetworkError
\* nor ProtocolError: nothing catches it before _process_input's except
\* clause, which runs, with the rest of _process_input, at once.
SessionRaises(w) ==
    /\ pc[w] = "fetch" /\ ~server.fixed
    /\ \E e \in UnexpectedErrors : EndWorker(w, TRUE, e)
    /\ UNCHANGED <<aux_vars, ses, callback_hooks, url_table, config, started, todo_dispatched, seeds, ops, server,
                   errors, stop_requested>>

\* Engine.stop called from outside the workers (the application's signal
\* handler), with or without force.
StopRequest(force) ==
    /\ started
    /\ stopping' = TRUE
    /\ done_event' = StopSetsDone(done_event, force)
    /\ stop_requested' = IF force \/ stop_requested = "force" THEN "force" ELSE "stop"
    /\ last' = NoOp
    /\ UNCHANGED <<aux_vars, ses, callback_hooks, url_table, config, started, num_worker_busy, pc, item, rcs,
                   todo_dispatched, seeds, ops, server, sem, exit_vars>>

\* The process ends (it exits after the done event, or it is killed) and is
\* started again on the same database: a new Engine over the table as the
\* last committed transaction left it.
NewProcess(t) ==
    /\ url_table' = t
    /\ last' = [op |-> "restart", w |-> 0, url |-> NULL,
                abandoned |-> {item[w].url : w \in
                                 {x \in Workers : item[x].url # NULL /\ ~item[x].processed}},
                forced |-> stop_requested = "force"]
    /\ started' = FALSE
    /\ stopping' = FALSE
    /\ done_event' = FALSE
    /\ num_worker_busy' = 0
    /\ pc' = [w \in Workers |-> "none"]
    /\ item' = [w \in Workers |-> NoItem]
    /\ rcs' = [w \in Workers |-> "none"]
    /\ todo_dispatched' = [u \in Urls |-> 0]
    /\ sem' = config.concurrent
    /\ exit_code' = 0
    /\ recorded' = {}
    /\ errors' = {}
    /\ stop_requested' = ""
    /\ UNCHANGED <<aux_vars, ses, callback_hooks, config, seeds, ops, server>>

\* The process is stopped or killed between two steps of its coroutines.
Restart == started /\ NewProcess(url_table)

\* The tables a kill can leave while worker w handles a response with this
\* code and these links: _handle_response commits set_value, then each add of
\* the scrape, then set_status, each in a transaction of its own, and the
\* kill falls after one of them and before set_status.
CommittedPrefixes(w, code, inline_urls, linked_urls) ==
    LET t1 == ItemSetValue(item[w], url_table, [status_code |-> code])
        t2 == ItemAddInline(item[w], t1, inline_urls)
        t3 == ItemAddLinked(item[w], t2, linked_urls)
    IN  IF code \in DOCUMENT_STATUS_CODES THEN {t1, t2, t3} ELSE {t1}

\* The process is killed while worker w handles a response.
KillInSession(w) ==
    /\ started /\ pc[w] = "fetch" /\ rcs[w] = "ready"
    /\ \E code \in Answers(item[w].url), c \in PageLinks(item[w].url) :
        \E inline_urls \in Orderings(c[1]), linked_urls \in Orderings(c[2]) :
            \E t \in CommittedPrefixes(w, code, inline_urls, linked_urls) :
                NewProcess(t)

Next ==
    \/ EngineStart
    \/ \E w \in Workers :
        \/ Dispatch(w)
        \/ Poll(w)
        \/ FetchError(w)
        \/ FetchRobots(w)
        \/ FetchResponse(w)
        \/ Finish(w)
        \/ SessionRaises(w)
    \/ \E force \in BOOLEAN : StopRequest(force)

Spec == Init /\ [][Next]_vars

\* ------------------------------------------------ runs that are resumed
\* A crawl from one seed against a server with a fixed plan; the process may
\* be stopped, or killed at any moment, and started again on its database.
InitResume ==
    /\ seeds = {1}
    /\ url_table = <<NewRow(1, todo)>>
    /\ config \in {c \in Configs : c.retry_connrefused}
    /\ EngineInit
    /\ server \in ServerPlans
    /\ last = NoOp
    /\ ops = 0

NextResume ==
    \/ EngineStart
    \/ \E w \in Workers :
        \/ Dispatch(w)
        \/ Poll(w)
        \/ FetchResponse(w)
        \/ Finish(w)
        \/ KillInSession(w)
    \/ \E force \in BOOLEAN : StopRequest(force)
    \/ Restart

SpecResume == InitResume /\ [][NextResume]_vars

\* ------------------------------------------- the table and item, called
\* A caller that makes up to MaxOps calls on one table and the URLItem built
\* from the last record the table returned (item[1]); the table starts with
\* the seed rows.
InitAPI ==
    /\ seeds = {1}
    /\ url_table = <<NewRow(1, todo)>>
    /\ config = [retry_connrefused |-> FALSE, retry_dns_error |-> FALSE,
                 concurrent |-> 1, max_level |-> MaxLevel]
    /\ EngineInit
    /\ server = AnyServer
    /\ last = NoOp
    /\ ops = 0

Range(s) == {s[i] : i \in 1..Len(s)}

\* The tuples of URLs a caller hands to add.
AddChoices ==
    UNION {Orderings(S) : S \in {S \in SUBSET Urls : Cardinality(S) \in 1..MaxLinks}}

\* The keyword arguments add is called with: none (the seeds), or those of
\* add_linked_url_infos and add_inline_url_infos of the caller's item.
AddKwargs(it) ==
    IF it.url = NULL THEN {NoKwargs}
    ELSE {NoKwargs, LinkedKwargs(it), InlineKwargs(it)}

Called(name) == /\ ops < MaxOps
                /\ ops' = ops + 1
                /\ UNCHANGED <<aux_vars, ses, callback_hooks, config, engine_vars, exit_vars, server>>

\* add(urls, **kwargs).
ApiAdd ==
    /\ \E urls \in AddChoices, kwargs \in AddKwargs(item[1]) :
        /\ url_table' = Add(url_table, urls, kwargs)
        /\ last' = [op |-> "add", w |-> 0, url |-> NULL,
                    urls |-> urls, kwargs |-> kwargs]
    /\ UNCHANGED item
    /\ Called("add")

\* add(urls, **kwargs) that fails part-way: in the insert loop at urls[k] (a
\* URL that is not a string), or in the update loop at urls[k] (a storage
\* error); the exception leaves the transaction.
PartialAdd(t, urls, kwargs, stage, k) ==
    IF stage = "insert"
    THEN InsertAll(t, SubSeq(urls, 1, k - 1))
    ELSE UpdateAll(InsertAll(t, urls), SubSeq(urls, 1, k - 1), kwargs)
ApiAddFails ==
    /\ \E urls \in AddChoices, kwargs \in AddKwargs(item[1]),
          stage \in {"insert", "update"} :
        \E k \in 1..Len(urls) :
            LET t2 == PartialAdd(url_table, urls, kwargs, stage, k)
            IN  /\ url_table' = Transaction(url_table, t2, TRUE)
                /\ last' = [op |-> "add_failed", w |-> 0, url |-> NULL,
                            urls |-> urls, kwargs |-> kwargs,
                            changed |-> t2 # url_table]
    /\ UNCHANGED item
    /\ Called("add")

\* The arguments get_and_update is called with.
GetAndUpdateArgs ==
    {<<todo, in_progress, None>>, <<error, in_progress, None>>,
     <<todo, "", Some(1)>>}

\* get_and_update(status, new_status, level) that finds a row: the row is
\* marked, read again and returned, and the caller builds its URLItem.
ApiGetAndUpdate ==
    /\ \E a \in GetAndUpdateArgs :
        \E i \in Candidates(url_table, a[1], a[3]) :
            LET t2 == MarkRow(url_table, i, a[2])
            IN  /\ url_table' = t2
                /\ item' = [item EXCEPT ![1] =
                                NewItem(ReturnedRow(url_table, t2, i, a[2]))]
                /\ last' = [op |-> "get_and_update", w |-> 0,
                            url |-> url_table[i].url, args |-> a, ok |-> TRUE,
                            row |-> ReturnedRow(url_table, t2, i, a[2])]
    /\ Called("get_and_update")

\* get_and_update(status, new_status, level) that finds no row: NotFound.
ApiNotFound ==
    /\ \E a \in GetAndUpdateArgs :
        /\ Candidates(url_table, a[1], a[3]) = {}
        /\ last' = [op |-> "get_and_update", w |-> 0, url |-> NULL,
                    args |-> a, ok |-> FALSE]
    /\ UNCHANGED <<aux_vars, ses, callback_hooks, url_table, item>>
    /\ Called("get_and_update")

\* URLItem.set_status(status, increment_try_count).
ApiSetStatus ==
    /\ item[1].url # NULL
    /\ \E status \in {done, error}, increment_try_count \in BOOLEAN :
        LET r == ItemSetStatus(item[1], url_table, status, increment_try_count)
        IN  /\ url_table' = r.table
            /\ item' = [item EXCEPT ![1] = r.item]
            /\ last' = [op |-> "set_status", w |-> 0, url |-> item[1].url,
                        status |-> status, increment |-> increment_try_count,
                        ok |-> r.ok]
    /\ Called("set_status")

\* URLItem.skip().
ApiSkip ==
    /\ item[1].url # NULL
    /\ LET r == ItemSkip(item[1], url_table)
       IN  /\ url_table' = r.table
           /\ item' = [item EXCEPT ![1] = r.item]
    /\ last' = Op("skip", 0, item[1].url)
    /\ Called("skip")

\* URLItem.set_value(status_code=...).
ApiSetValue ==
    /\ item[1].url # NULL
    /\ \E code \in {200} :
        url_table' = ItemSetValue(item[1], url_table, [status_code |-> code])
    /\ last' = Op("set_value", 0, item[1].url)
    /\ UNCHANGED item
    /\ Called("set_value")

\* release().
ApiRelease ==
    /\ url_table' = Release(url_table)
    /\ last' = Op("release", 0, NULL)
    /\ UNCHANGED item
    /\ Called("release")

NextAPI ==
    \/ ApiAdd
    \/ ApiAddFails
    \/ ApiGetAndUpdate
    \/ ApiNotFound
    \/ ApiSetStatus
    \/ ApiSkip
    \/ ApiSetValue
    \/ ApiRelease

SpecAPI == InitAPI /\ [][NextAPI]_vars

\* --------------------------------------------------------------------
\* The row of u as the table holds it.
Row(u) == GetItem(url_table, u)
InTable(u) == HasUrl(url_table, u)
\* The workers that hold an item their session has not ended yet.
InFlight == {w \in Workers : item[w].url # NULL /\ ~item[w].processed}

\* C1: no two get_and_update(todo -> in_progress) calls return the same URL:
\* every URL is returned by at most one such call, and the row of an item in
\* flight is in_progress, so that no other worker finds it as todo.
ExclusiveDispatch ==
    /\ \A u \in Urls : todo_dispatched[u] <= 1
    /\ \A w \in InFlight :
        /\ InTable(item[w].url)
        /\ Row(item[w].url).status = in_progress
    /\ \A w1, w2 \in InFlight : w1 # w2 => item[w1].url # item[w2].url

\* Two workers hold items in flight, each handed out by a todo lookup.
TwoInFlight ==
    /\ Cardinality(InFlight) >= 2
    /\ \A w \in InFlight : todo_dispatched[item[w].url] = 1

AddFrame ==
    [][last'.op = "add" =>
        LET U == Range(last'.urls)
            kw == last'.kwargs
            t == url_table
            t2 == url_table'
        IN  /\ TableUrls(t2) = TableUrls(t) \cup U
            /\ Len(t2) = Len(t) + Cardinality(U \ TableUrls(t))
            /\ \A i \in 1..Len(t2) :
                LET old == IF i <= Len(t) THEN t[i] ELSE NewRow(t2[i].url, todo)
                IN  /\ t2[i].url = old.url
                    /\ IF t2[i].url \in U
                       THEN /\ \A c \in DOMAIN old :
                                t2[i][c] = IF c \in DOMAIN kw THEN kw[c] ELSE old[c]
                            /\ t2[i].status = old.status
                            /\ t2[i].try_count = old.try_count
                       ELSE t2[i] = old]_vars

\* add was called with attributes on a row that was there (it is not todo)
\* while the table holds a second row.
AddedWithAttributes ==
    /\ last.op = "add"
    /\ DOMAIN last.kwargs # {}
    /\ Len(url_table) >= 2
    /\ \E u \in Range(last.urls) : Row(u).status # todo

\* C10: no step of add, get_and_update, update (through the URLItem) or
\* release takes a URL out of the table or lowers count().
NeverShrinks ==
    [][/\ Count(url_table') >= Count(url_table)
       /\ TableUrls(url_table) \subseteq TableUrls(url_table')]_vars

\* release was called and returned the caller's in-progress row to todo.
ReleasedInProgress ==
    /\ last.op = "release"
    /\ item[1].url # NULL
    /\ ~item[1].processed
    /\ Row(item[1].url).status = todo

\* C6 as stated: every set_status call succeeds and stores its status.
SetStatusAlwaysSucceeds ==
    last.op = "set_status" =>
        /\ last.ok
        /\ Row(last.url).status = last.status

\* C6: set_status succeeds, and stores its status, exactly when no earlier
\* call on the item incremented try_count; after such a call it fails and
\* changes nothing; an item increments try_count at most once.
SetStatusOnce ==
    [][/\ \A w \in Workers : item'[w].incs <= 1
       /\ last'.op = "set_status" =>
            IF item[1].try_count_incremented
            THEN /\ ~last'.ok
                 /\ url_table' = url_table
                 /\ item' = item
            ELSE /\ last'.ok
                 /\ item'[1].processed
                 /\ GetItem(url_table', last'.url).status = last'.status
                 /\ GetItem(url_table', last'.url).try_count =
                        GetItem(url_table, last'.url).try_count
                            + (IF last'.increment THEN 1 ELSE 0)]_vars

\* A second set_status call on an item was refused.
SetStatusRefused == last.op = "set_status" /\ ~last.ok

\* C3: a row that is done or skipped is not put back to todo or in_progress
\* by any step of the engine and its sessions (re-discovery by add,
\* get_and_update, the sessions' status updates, release).
TerminalStays ==
    [][\A i \in 1..Len(url_table) :
        url_table[i].status \in {done, skipped} =>
            /\ HasUrl(url_table', url_table[i].url)
            /\ GetItem(url_table', url_table[i].url).status \notin {todo, in_progress}]_vars

\* A page's links named another URL whose row is done or skipped.
RediscoveredTerminal ==
    /\ last.op = "document"
    /\ \E u \in (last.inline \cup last.linked) \ {last.url} :
        Row(u).status \in {done, skipped}

\* C4 as stated: when process() has returned, skip or set_status was called:
\* the item is processed and its row is done, error or skipped.
SessionEndsProcessed ==
    \A w \in Workers :
        pc[w] = "finish" =>
            /\ item[w].processed
            /\ Row(item[w].url).status \in {done, error, skipped}

\* C5 as stated: try_count never decreases, and a step that sets a row done
\* or skipped leaves its try_count unchanged.
TryCountOnlyOnFailure ==
    [][\A i \in 1..Len(url_table) :
        LET r == url_table[i]
            r2 == GetItem(url_table', r.url)
        IN  /\ r2.try_count >= r.try_count
            /\ (r2.status \in {done, skipped} /\ r.status \notin {done, skipped})
                    => r2.try_count = r.try_count]_vars

\* C5: try_count never decreases; a step raises it by exactly one, and only
\* the step in which a session ends its item with set_status after a fetch
\* (done, skipped or error alike); a session that ends its item with skip()
\* leaves it unchanged.
TryCountPerSession ==
    [][\A i \in 1..Len(url_table) :
        LET r == url_table[i]
            r2 == GetItem(url_table', r.url)
        IN  /\ r2.try_count >= r.try_count
            /\ r2.try_count > r.try_count =>
                /\ r2.try_count = r.try_count + 1
                /\ r2.status \in {done, skipped, error}
                /\ \E w \in Workers :
                    /\ pc[w] = "fetch" /\ item[w].url = r.url
                    /\ ~item[w].try_count_incremented
                    /\ item'[w].try_count_incremented
                    /\ item'[w].processed
            /\ \A w \in Workers :
                (/\ item'[w].url = r.url
                 /\ ~item[w].processed /\ item'[w].processed
                 /\ ~item'[w].try_count_incremented)
                    => r2.try_count = r.try_count /\ r2.status = skipped]_vars

\* A row set done by its session has had its try_count raised.
DoneCountsATry ==
    \E i \in 1..Len(url_table) :
        url_table[i].status = done /\ url_table[i].try_count >= 1

\* C7 as stated: every non-seed row has level > 0, and every row whose
\* referrer's row exists is one level below it.
DepthMonotone ==
    \A i \in 1..Len(url_table) :
        LET r == url_table[i]
        IN  /\ r.url \notin seeds => r.level > 0
            /\ (r.referrer # NULL /\ InTable(r.referrer))
                    => r.level = Row(r.referrer).level + 1

\* C8: after a session has scraped a document, every inline and linked URL
\* it found has level = the item's record's level + 1, referrer = the item's
\* URL and top_url = the record's top_url, or the item's URL when the record
\* has none; the inline URLs have inline = 1.
ChildFields ==
    last.op = "document" =>
        LET it == item[last.w]
        IN  /\ it.url = last.url
            /\ \A u \in last.inline \cup last.linked :
                /\ InTable(u)
                /\ Row(u).level = it.level + 1
                /\ Row(u).referrer = it.url
                /\ Row(u).top_url = (IF it.top_url # NULL THEN it.top_url ELSE it.url)
                /\ u \in last.inline => Row(u).inline = 1

\* An item that has a top_url of its own scraped inline and linked URLs.
ScrapedBelowSeed ==
    /\ last.op = "document"
    /\ last.inline # {} /\ last.linked # {}
    /\ item[last.w].top_url # NULL

\* C11: release turns every in_progress row to todo and changes nothing
\* else, and it runs only in the step that starts the engine, when no worker
\* has started and none is busy: once the engine has started no row goes from
\* in_progress to todo, and no row is dispatched before it has started.
ReleaseAtStartup ==
    [][/\ (~started /\ started') =>
            /\ Len(url_table') = Len(url_table)
            /\ \A i \in 1..Len(url_table) :
                url_table'[i] =
                    IF url_table[i].status = in_progress
                    THEN [url_table[i] EXCEPT !.status = todo]
                    ELSE url_table[i]
            /\ \A w \in Workers : pc[w] = "none" /\ item[w] = NoItem
            /\ num_worker_busy = 0
       /\ (started /\ started') =>
            \A i \in 1..Len(url_table) :
                ~(url_table[i].status = in_progress /\ url_table'[i].status = todo)
       /\ ~started =>
            \A i \in 1..Len(url_table) :
                url_table[i].status # in_progress => url_table'[i].status # in_progress]_vars

\* The engine's startup release returned a row to todo while the table held
\* another row, which was done.
StartupReleased ==
    /\ last.op = "release" /\ started
    /\ last.released # {}
    /\ \E i \in 1..Len(url_table) : url_table[i].status = done

UninterruptedLevel(u) == IF u \in seeds THEN 0 ELSE 1
UninterruptedStatus(u) ==
    IF UninterruptedLevel(u) <= MaxLevel /\ server.answer[u] = 200
    THEN done ELSE skipped
UninterruptedUrls ==
    seeds \cup UNION {IF server.answer[u] = 200 THEN server.links[u] ELSE {} : u \in seeds}
\* The run has ended by itself: no row was left to take, no worker was busy,
\* nobody asked it to stop and no fatal error was recorded.
Completed == done_event /\ stop_requested = "" /\ exit_code = 0

\* C14 as stated: a run that was killed or stopped and started again ends
\* with the rows, and the status of every row, that a single uninterrupted
\* run against the same server ends with.
ResumeEquivalence ==
    Completed =>
        /\ TableUrls(url_table) = UninterruptedUrls
        /\ \A i \in 1..Len(url_table) :
            url_table[i].status = UninterruptedStatus(url_table[i].url)

\* The workers that hold a permit of the semaphore, and those that took a
\* record and have not ended its processing.
PermitHolders == {w \in Workers : pc[w] # "none"}
Busy == {w \in Workers : pc[w] \in {"fetch", "finish", "raised"}}

\* C15: the items in flight never outnumber the configured concurrency: every
\* worker between taking a record and the end of its processing holds one
\* permit, the permits held and the permits left add up to the concurrency,
\* and the busy count is the number of such workers.
SemaphoreBound ==
    /\ Cardinality(Busy) <= config.concurrent
    /\ Busy \subseteq PermitHolders
    /\ sem >= 0
    /\ sem + Cardinality(PermitHolders) = config.concurrent
    /\ num_worker_busy = Cardinality(Busy)

\* With a concurrency of one, one item is in flight, no permit is left and
\* another row waits as todo.
SemaphoreHoldsBack ==
    /\ config.concurrent = 1
    /\ Cardinality(Busy) = 1 /\ sem = 0
    /\ \E i \in 1..Len(url_table) : url_table[i].status = todo

\* C16: when the done event is set with no stop request and no fatal error,
\* no worker is busy and every row is done or skipped.
NaturalCompletion ==
    Completed =>
        /\ num_worker_busy = 0
        /\ \A i \in 1..Len(url_table) : url_table[i].status \in {done, skipped}

\* A run ended by itself after a row had been an error and was tried again.
CompletedAfterRetry ==
    /\ Completed
    /\ \E i \in 1..Len(url_table) : url_table[i].try_count >= 2

\* A step taken after stop() was called without force and with no forced
\* stop since; the workers that end the processing of their item in a step.
AfterStop == stop_requested = "stop" /\ stop_requested' = "stop"
EndingWorkers == {w \in Workers : item[w].url # NULL /\ item'[w].url = NULL}
NoNewInProgress ==
    \A u \in TableUrls(url_table) :
        GetItem(url_table, u).status \in {todo, error}
            => GetItem(url_table', u).status # in_progress

ForcedStopStep == stop_requested' = "force" /\ stop_requested # "force"

\* C18: stop(force=True) sets the done event in the same step, whatever the
\* workers are doing, and touches neither the table nor the sessions; when
\* the process ends after it, the row of every session it abandons is
\* in_progress in the database, and the release() of the next startup returns
\* each of them to todo and drops no row.
ForcedStopAbandons ==
    [][/\ ForcedStopStep =>
            done_event' /\ url_table' = url_table /\ item' = item /\ pc' = pc
       /\ (last'.op = "restart" /\ last.op # "restart" /\ last'.forced) =>
            /\ TableUrls(url_table) \subseteq TableUrls(url_table')
            /\ \A u \in last'.abandoned : GetItem(url_table', u).status = in_progress
       /\ (last.op = "restart" /\ ~started /\ started') =>
            /\ TableUrls(url_table') = TableUrls(url_table)
            /\ \A u \in last.abandoned : GetItem(url_table', u).status = todo]_vars

\* A process that was stopped with force while a session was in flight has
\* ended and left that session's row behind.
ForcedStopLeftSession ==
    /\ last.op = "restart" /\ last.forced
    /\ \E u \in last.abandoned : GetItem(url_table, u).status = in_progress

\* C19 as stated: after an unexpected error has left a session, the item's
\* row is error and the run goes on: the engine is neither stopping nor done.
UnexpectedErrorContinues ==
    last.op = "fatal" =>
        /\ Row(last.url).status = error
        /\ ~stopping
        /\ ~done_event

\* C19: when an unexpected error leaves a session, the worker records the
\* exit code of the error (never 0, and never above a positive code held
\* before), leaves the table as it is, so that the item's row keeps the status
\* it had, and stops the engine with force: the done event is set in the same
\* step, and from then on no todo or error row is dispatched.
UnexpectedErrorStops ==
    [][/\ last'.op = "fatal" =>
            /\ url_table' = url_table
            /\ stopping' /\ done_event'
            /\ exit_code' > 0
            /\ exit_code > 0 => exit_code' <= exit_code
       /\ (stopping /\ stop_requested' # "force") =>
            /\ stopping'
            /\ NoNewInProgress
            /\ Busy' \subseteq Busy]_vars

\* An unexpected error has left a session whose row is still in_progress,
\* while another row waits as todo and will not be dispatched.
FatalLeavesTodo ==
    /\ last.op = "fatal" /\ stop_requested = ""
    /\ InTable(last.url) /\ Row(last.url).status = in_progress
    /\ done_event /\ exit_code = generic_error
    /\ \E i \in 1..Len(url_table) : url_table[i].status = todo

\* ------------------------------------------- the exit code of a run
\* Spec follows the table and the workers and leaves statistics.errors as it
\* is; SpecExit follows the errors a run records and the exit code that
\* Engine.__call__ returns, and leaves the table and the workers as they are.

\* The error types a session counts in statistics.errors: ServerError, and
\* the type of a caught NetworkError or ProtocolError, which can be a
\* subclass that is no key of ERROR_CODE_MAP (NetworkTimedOut).
StatErrors == FetchErrors \cup {"ServerError", "SSLVerficationError", "NetworkTimedOut"}
\* The errors that reach the except clause of a worker.
FatalErrors == UnexpectedErrors \cup {"OSError", "AssertionError"}

\* The statistics give no code.
StatCodeNone(e) == 0
\* ERROR_CODE_MAP.get(error_type): no code for a type that is no key.
StatCode(e) == IF e \in ErrorTypes THEN ERROR_CODE_MAP[e] ELSE 0

\* Engine._compute_exit_code_from_stats: _update_exit_code with the code of
\* every type counted, one after the other.
RECURSIVE ComputeExitCodeFromStats(_, _)
ComputeExitCodeFromStats(cur, types) ==
    IF types = {} THEN cur
    ELSE LET e == CHOOSE x \in types : TRUE
         IN  ComputeExitCodeFromStats(
                 IF StatCode(e) # 0 THEN UpdateExitCode(cur, StatCode(e)) ELSE cur,
                 types \ {e})

Returned == last.op = "exit"

InitExit == InitAPI

\* _handle_error and _handle_document_error count the error's type.
RecordError(e) ==
    /\ started /\ ~Returned
    /\ errors' = errors \cup {e}
    /\ UNCHANGED <<aux_vars, ses, callback_hooks, url_table, config, engine_vars, item, last, seeds, ops, server,
                   exit_code, recorded>>

\* The except clause of _process_input: the code of the error, and a
\* forced stop.
FatalError(e) ==
    /\ started /\ ~Returned
    /\ exit_code' = UpdateExitCode(exit_code, ErrorCode(e))
    /\ recorded' = recorded \cup {ErrorCode(e)}
    /\ stopping' = TRUE
    /\ done_event' = StopSetsDone(done_event, TRUE)
    /\ UNCHANGED <<aux_vars, ses, callback_hooks, url_table, config, started, num_worker_busy, pc, item, rcs,
                   todo_dispatched, last, seeds, ops, sem, errors, stop_requested,
                   server>>

\* Engine.__call__ after the done event: the codes of the statistics, and
\* the exit code is returned.
ReturnExitCode ==
    /\ done_event /\ ~Returned
    /\ exit_code' = ComputeExitCodeFromStats(exit_code, errors)
    /\ recorded' = recorded \cup {ERROR_CODE_MAP[e] : e \in errors \cap ErrorTypes}
    /\ last' = Op("exit", 0, NULL)
    /\ UNCHANGED <<aux_vars, ses, callback_hooks, url_table, config, engine_vars, item, seeds, ops, server, errors>>

NextExit ==
    \/ EngineStart
    \/ \E e \in StatErrors : RecordError(e)
    \/ \E e \in FatalErrors : FatalError(e)
    \/ \E force \in BOOLEAN : StopRequest(force)
    \/ ReturnExitCode

SpecExit == InitExit /\ [][NextExit]_vars

\* The least of a set of codes, 0 for the empty set.
MinCode(codes) ==
    IF codes = {} THEN 0 ELSE CHOOSE c \in codes : \A d \in codes : c <= d

\* C20: the exit code is at every moment the least positive code recorded so
\* far, and 0 while none is recorded; the code returned counts the fatal
\* errors and every error type of the statistics that has a code; and once it
\* is positive, recording a further code leaves it positive and never raises
\* it.
ExitCodeIsMinimum ==
    [][/\ exit_code' = MinCode(recorded' \ {0})
       /\ exit_code > 0 => (0 < exit_code' /\ exit_code' <= exit_code)
       /\ (~Returned /\ Returned') =>
            {StatCode(e) : e \in errors} \ {0} \subseteq recorded']_vars

\* A run has returned the code of a fatal error, the least of three codes
\* recorded; the two others are from the statistics, where a type with no
\* code was counted too.
ReturnedLeastOfSeveral ==
    /\ Returned
    /\ exit_code = file_io_error
    /\ recorded = {file_io_error, network_failure, server_error}
    /\ "ServerError" \in errors /\ "NetworkTimedOut" \in errors

\* --------------------------------------- one worker's sessions, request by request
\* SpecSession follows a run with one worker and pages without links, and in
\* it every request of a session: the URL asked for, the redirect budget, the
\* status codes stored, what the writer is asked to do with the body, the
\* error types counted, and the exit code the run returns.
MaxRedirect == 2
NumRequestUrls == 3
\* The URLs a request can go to: those of the table and one more.
RequestUrls == 1..NumRequestUrls
\* The status codes a server answers with here: the document codes, the
\* no-document codes, a redirect, and two of the others.
SessionCodes == {200, 206, 304, 401, 403, 404, 405, 410, 301, 204, 500}
\* The error classes the model raises.
ErrorClasses == ErrorTypes \cup {"NetworkTimedOut", "Exception"}
\* except (NetworkError, ProtocolError) in _process_one.
IsCaught(e) == IsInstance(e, "NetworkError") \/ IsInstance(e, "ProtocolError")
CaughtErrors == {e \in ErrorClasses : IsCaught(e)}
\* The one worker.
SW == 1

InitSession ==
    /\ seeds = {1}
    /\ url_table = <<NewRow(1, todo)>>
    /\ config \in [retry_connrefused : BOOLEAN, retry_dns_error : BOOLEAN,
                   concurrent : {1}, max_level : {MaxLevel}]
    /\ EngineInit
    /\ server = AnyServer
    /\ last = NoOp
    /\ ops = 0

\* Engine._process_input with a record, and process() up to its first fetch.
SessionDispatch ==
    /\ started /\ ~Returned /\ TakePermit(SW)
    /\ NextRecordStatus(url_table, stopping) # ""
    /\ \E i \in Candidates(url_table, NextRecordStatus(url_table, stopping), None) :
        LET u == url_table[i].url
            t2 == MarkRow(url_table, i, in_progress)
            it == NewItem(ReturnedRow(url_table, t2, i, in_progress))
        IN  /\ \E start \in SessionStarts(it), verdict \in Verdicts(it) :
                ProcessStart(SW, it, t2, start, verdict)
            /\ todo_dispatched' =
                   IF NextRecordStatus(url_table, stopping) = todo
                   THEN [todo_dispatched EXCEPT ![u] = @ + 1]
                   ELSE todo_dispatched
            /\ ses' = [request |-> IF pc'[SW] = "fetch" THEN u ELSE NULL,
                       budget |-> MaxRedirect,
                       visited |-> IF pc'[SW] = "fetch" THEN {u} ELSE {},
                       answers |-> <<>>, codes |-> <<>>, writer |-> "",
                       robots |-> "", raised |-> ses.raised, main_requests |-> 0,
                       attempts |-> ses.attempts + (IF pc'[SW] = "fetch" THEN 1 ELSE 0)]
    /\ num_worker_busy' = num_worker_busy + 1
    /\ last' = NoOp
    /\ UNCHANGED <<aux_vars, callback_hooks, config, started, stopping, done_event, seeds, ops,
                   server, stop_requested, exit_vars>>

\* The error is counted and the item skipped.
HandleErrorSkips(e) ==
    /\ errors' = errors \cup {e}
    /\ SessionSetStatus(SW, url_table, skipped)
    /\ UNCHANGED rcs
\* The fetch raises an error that _process_one catches: _handle_error counts
\* its type and sets the status.
HandleError(e) ==
    /\ errors' = errors \cup {e}
    /\ SessionSetStatus(SW, url_table, ErrorStatus(e, config))
    /\ UNCHANGED rcs

SessionFetchError ==
    /\ pc[SW] = "fetch" /\ ~Returned
    /\ \E e \in CaughtErrors :
        /\ HandleError(e)
        /\ ses' = [ses EXCEPT !.raised = @ \cup {e},
                              !.main_requests = @ + (IF rcs[SW] = "ready" THEN 1 ELSE 0)]
        /\ last' = [op |-> "fetch_error", w |-> SW, url |-> item[SW].url, error |-> e]
    /\ UNCHANGED <<aux_vars, callback_hooks, config, started, stopping, done_event,
                   num_worker_busy, todo_dispatched, seeds, ops, server, sem,
                   stop_requested, exit_code, recorded>>

\* The response is the robots.txt the rich client asked for.
SessionFetchRobots ==
    /\ pc[SW] = "fetch" /\ rcs[SW] = "robots" /\ ~Returned
    /\ \E s \in AfterRobotsStates, verdict \in Verdicts(item[SW]) :
        /\ LoopHead(SW, item[SW], url_table, s, verdict)
        /\ ses' = [ses EXCEPT !.robots = CASE s = "done" -> "denied"
                                           [] s = "ready" -> "allowed"
                                           [] OTHER -> "again"]
    /\ last' = NoOp
    /\ UNCHANGED <<aux_vars, callback_hooks, config, started, stopping, done_event,
                   num_worker_busy, todo_dispatched, seeds, ops, server, sem,
                   stop_requested, exit_vars>>

\* The rich client's redirect tracker on a 3xx response with this location:
\* the budget is lowered by one, and the fetch raises ProtocolError when the
\* location is missing, was visited before, or the budget is used up.
RedirectFails(location) ==
    location = NULL \/ location \in ses.visited \/ ses.budget - 1 = 0

\* A response to the item's request: a redirect that is followed, a redirect
\* that fails, or a response that _handle_response classifies.
SessionFetchResponse ==
    /\ pc[SW] = "fetch" /\ rcs[SW] = "ready" /\ ~Returned
    /\ \E code \in SessionCodes :
        LET t1 == ItemSetValue(item[SW], url_table, [status_code |-> code])
            sent == [ses EXCEPT !.main_requests = @ + 1,
                                !.answers = Append(@, code)]
        IN  IF IsRedirect(code)
            THEN \E location \in RequestUrls \cup {NULL} :
                 IF RedirectFails(location)
                 THEN /\ HandleError("ProtocolError")
                      /\ ses' = [sent EXCEPT !.budget = @ - 1,
                                             !.raised = @ \cup {"ProtocolError"}]
                 ELSE /\ \E verdict \in Verdicts(item[SW]) :
                            LoopHead(SW, item[SW], t1, AfterResponse(code), verdict)
                      /\ ses' = [sent EXCEPT !.budget = @ - 1,
                                             !.request = location,
                                             !.visited = @ \cup {location},
                                             !.codes = Append(@, code)]
                      /\ UNCHANGED errors
            ELSE /\ rcs' = [rcs EXCEPT ![SW] = AfterResponse(code)]
                 /\ IF code \in DOCUMENT_STATUS_CODES
                    THEN /\ SessionSetStatus(SW, Scrape(item[SW], t1, <<>>, <<>>), done)
                         /\ ses' = [sent EXCEPT !.codes = Append(@, code),
                                                !.writer = "save_document"]
                         /\ UNCHANGED errors
                    ELSE IF code \in NO_DOCUMENT_STATUS_CODES
                    THEN /\ SessionSetStatus(SW, t1, skipped)
                         /\ ses' = [sent EXCEPT !.codes = Append(@, code),
                                                !.writer = "discard_document"]
                         /\ UNCHANGED errors
                    ELSE /\ SessionSetStatus(SW, t1, error)
                         /\ ses' = [sent EXCEPT !.codes = Append(@, code),
                                                !.writer = "discard_document"]
                         /\ errors' = errors \cup {"ServerError"}
    /\ last' = NoOp
    /\ UNCHANGED <<aux_vars, callback_hooks, config, started, stopping, done_event,
                   num_worker_busy, todo_dispatched, seeds, ops, server, sem,
                   stop_requested, exit_code, recorded>>

\* An error leaves the session: one the fetch raises and _process_one does
\* not catch, or one raised outside the fetch (by the writer, the scraper).
SessionEscapes ==
    /\ pc[SW] = "fetch" /\ ~Returned
    /\ \E e \in ErrorClasses :
        /\ EndWorker(SW, TRUE, e)
        /\ ses' = [ses EXCEPT !.raised = @ \cup {e}]
    /\ UNCHANGED <<aux_vars, callback_hooks, url_table, config, started, todo_dispatched, seeds,
                   ops, server, errors, stop_requested>>

\* The end of _process_input: the is_processed assertion, the busy count,
\* the permit.
SessionFinish ==
    /\ pc[SW] \in {"finish", "raised"} /\ ~Returned
    /\ LET fatal == pc[SW] = "raised" \/ ~item[SW].processed
       IN  /\ EndWorker(SW, fatal, "AssertionError")
           /\ ses' = [ses EXCEPT !.raised =
                          IF fatal THEN @ \cup {"AssertionError"} ELSE @]
    /\ UNCHANGED <<aux_vars, callback_hooks, url_table, config, started, todo_dispatched, seeds,
                   ops, server, errors, stop_requested>>

\* _process_input finds no record.
SessionPoll == ~Returned /\ Poll(SW)

NextSession ==
    \/ EngineStart
    \/ SessionDispatch
    \/ SessionFetchError
    \/ SessionFetchRobots
    \/ SessionFetchResponse
    \/ SessionEscapes
    \/ SessionFinish
    \/ SessionPoll
    \/ ReturnExitCode

SpecSession == InitSession /\ [][NextSession]_vars

\* The run raised errors of class e only, in a fetch or elsewhere in a
\* session, and counted no other type.
OnlyRaised(e) == ses.raised = {e} /\ errors \subseteq {e}

\* C21: a run whose sessions raise errors of one class only returns the code
\* ERROR_CODE_MAP holds for that class when the class is one of its keys,
\* and the generic code when the error is an instance of none of the keys.
ExitCodeOfError ==
    Returned =>
        /\ \A e \in ErrorTypes : OnlyRaised(e) => exit_code = ERROR_CODE_MAP[e]
        /\ \A e \in ErrorClasses :
              (OnlyRaised(e) /\ \A k \in ErrorTypes : ~IsInstance(e, k))
                  => exit_code = generic_error

\* A run has returned the code of ServerError after a ServerError left a
\* session: ServerError is a ValueError too, and the earlier entry decided.
ReturnedServerError ==
    /\ Returned
    /\ OnlyRaised("ServerError") /\ errors = {}
    /\ IsInstance("ServerError", "ValueError")
    /\ exit_code = server_error

\* The session has handled a response that is not a followed redirect: the
\* writer was asked to save or to discard, and the status code stored last
\* is the code of that response.
ResponseClassified == pc[SW] = "finish" /\ ses.writer # ""
LastCode == ses.codes[Len(ses.codes)]

FetchErrorOutcome ==
    last.op = "fetch_error" =>
        /\ last.error \in errors
        /\ Row(last.url).status =
              IF last.error = "ConnectionRefused" /\ ~config.retry_connrefused
                 THEN skipped
              ELSE IF last.error = "DNSNotFound" /\ ~config.retry_dns_error
                 THEN skipped
              ELSE error

\* With retry_dns_error on and retry_connrefused off a DNSNotFound has set
\* the item error.
DnsErrorRetried ==
    /\ last.op = "fetch_error" /\ last.error = "DNSNotFound"
    /\ config.retry_dns_error /\ ~config.retry_connrefused
    /\ Row(last.url).status = error

\* C24: a run in which the only error is DNSNotFound, with retry_dns_error
\* off, has tried the URL in one session only, leaves its row skipped with
\* one try counted and nothing for the engine to take, and returns
\* network_failure.
DnsFailureOnce ==
    (Returned /\ ~config.retry_dns_error
     /\ ses.raised = {"DNSNotFound"} /\ errors = {"DNSNotFound"}) =>
        /\ ses.attempts = 1
        /\ todo_dispatched[1] = 1
        /\ Row(1).status = skipped /\ Row(1).try_count = 1
        /\ NextStatus(url_table) = ""
        /\ exit_code = network_failure

\* Such a run has returned.
DnsFailureReturned ==
    /\ Returned /\ ~config.retry_dns_error
    /\ ses.raised = {"DNSNotFound"} /\ errors = {"DNSNotFound"}
    /\ Row(1).status = skipped /\ exit_code = network_failure

\* C25: when the item's URL answers 301 and the URL it points to answers 404,
\* both requests belong to the one session of the one item, the status code
\* is stored twice, 301 and then 404, the row ends skipped, no error is
\* counted for it, and a run with no other attempt returns 0.
RedirectThenGone ==
    ses.answers = <<301, 404>> =>
        /\ ses.codes = <<301, 404>>
        /\ ses.main_requests = 2 /\ Cardinality(ses.visited) = 2
        /\ Row(1).status = skipped /\ Row(1).status_code = 404
        /\ ses.attempts = 1 => (errors = {} /\ exit_code = 0)

\* The run of the 301 and the 404 has returned 0.
RedirectThenGoneReturned ==
    /\ Returned /\ ses.answers = <<301, 404>> /\ ses.attempts = 1
    /\ Row(1).status = skipped /\ exit_code = 0

\* How many of the answers were redirects.
RECURSIVE Redirects(_)
Redirects(answers) ==
    IF answers = <<>> THEN 0
    ELSE (IF Head(answers) = 301 THEN 1 ELSE 0) + Redirects(Tail(answers))

\* C26: a session sends its requests to at most MaxRedirect different URLs;
\* every 3xx answer takes one unit of the budget; while redirects are
\* followed the item has no terminal status; and the session in which the
\* budget is used up has ended with a ProtocolError counted and the item
\* set error.
RedirectBound ==
    /\ Cardinality(ses.visited) <= MaxRedirect
    /\ ses.visited # {} => ses.budget = MaxRedirect - Redirects(ses.answers)
    /\ (pc[SW] = "fetch" /\ rcs[SW] = "ready") =>
          ~item[SW].processed /\ Row(item[SW].url).status = in_progress
    /\ (ses.visited # {} /\ ses.budget = 0) =>
          /\ pc[SW] # "fetch"
          /\ "ProtocolError" \in errors
          /\ Row(1).status = error

\* The budget was used up by two redirects: the first was followed, the
\* second ended the session.
RedirectBudgetUsedUp ==
    /\ ses.answers = <<301, 301>> /\ ses.budget = 0
    /\ Cardinality(ses.visited) = MaxRedirect
    /\ ses.codes = <<301>>
    /\ Row(1).status = error

\* C27 as stated: when robots.txt denies the item, the item's own request is
\* never sent, nothing of a response is stored, saved or scraped, and the row
\* ends skipped.
RobotsDeniedSkips ==
    (ses.robots = "denied" /\ pc[SW] # "fetch") =>
        /\ ses.main_requests = 0
        /\ ses.codes = <<>> /\ ses.writer = ""
        /\ Row(1).status = skipped

\* ------------------------------------------- the filters and the scrape
\* A crawl from one seed against a server with a fixed plan, with the level
\* filter set to let pass the seed alone (max_level 0) or the seed and its
\* links (max_level 1).  The URL filters are asked in _should_fetch, at the
\* head of process() and of its loop; _process_scrape_info asks no filter.
FilterConfigs ==
    {[c EXCEPT !.max_level = l] : c \in Configs, l \in 0..MaxLevel}

InitFilter ==
    /\ seeds = {1}
    /\ url_table = <<NewRow(1, todo)>>
    /\ config \in FilterConfigs
    /\ EngineInit
    /\ server \in ServerPlans
    /\ last = NoOp
    /\ ops = 0

NextFilter ==
    \/ EngineStart
    \/ \E w \in Workers :
        \/ Dispatch(w)
        \/ Poll(w)
        \/ FetchResponse(w)
        \/ Finish(w)

SpecFilter == InitFilter /\ [][NextFilter]_vars

\* The level filter's verdict on a row or an item.
PassesFilters(r) == r.level <= config.max_level

SpecTries == InitFilter /\ [][NextFilter]_vars /\ WF_vars(NextFilter)

\* Every request for u is answered with a server error.
AlwaysFails(u) == server.fixed /\ server.answer[u] = 500

\* No row has counted more tries than the limit, and an item that has used
\* up its tries is not fetched.
TriesBound ==
    /\ \A i \in DOMAIN url_table : url_table[i].try_count <= MaxTries
    /\ \A w \in Workers : pc[w] = "fetch" => item[w].try_count < MaxTries

\* A fetch of a URL that always fails sets its row to error and counts one
\* more try.
FailedFetchCounts ==
    \A w \in Workers :
        (pc[w] = "fetch" /\ pc'[w] # "fetch" /\ AlwaysFails(item[w].url)) =>
            /\ GetItem(url_table', item[w].url).status = error
            /\ GetItem(url_table', item[w].url).try_count =
                   GetItem(url_table, item[w].url).try_count + 1

\* The run has ended and stays so: the done event is set, no worker holds an
\* item, and every row of a URL that always fails is skipped.
FailingUrlsGivenUp ==
    /\ done_event
    /\ \A w \in Workers : pc[w] \in {"none", "idle"}
    /\ \A i \in DOMAIN url_table :
        AlwaysFails(url_table[i].url) => url_table[i].status = skipped

\* C29: every failed fetch counts a try, an item that has reached the limit
\* of tries is rejected and not fetched, so a URL that fails at every attempt
\* is fetched at most MaxTries times; in the end its row is skipped and the
\* run is over, the error row being dispatched no more.
TriesLimitTerminates ==
    /\ []TriesBound
    /\ [][FailedFetchCounts]_vars
    /\ <>[]FailingUrlsGivenUp

\* The run is over with the seed, which failed at every attempt, skipped
\* after MaxTries tries.
GaveUpAfterMaxTries ==
    /\ done_event
    /\ AlwaysFails(1)
    /\ GetItem(url_table, 1).status = skipped
    /\ GetItem(url_table, 1).try_count = MaxTries

\* --------------------------------------------------------- the hooks
\* One HookableMixin object and a caller of its methods.  callback_hooks maps
\* each registered name to its callback, or to NoCallback (None); a callback
\* is a callable, which Python takes for true.
HookNames == {"engine_run", "resolve_dns"}
Callbacks == {"callback_a", "callback_b"}
NoCallback == ""

\* A call's outcome: the dict after it, the exception it raised ("" for
\* none) and the callback it invoked (NoCallback for none).
HookOutcome(hooks, raised, invoked) ==
    [hooks |-> hooks, raised |-> raised, invoked |-> invoked]
\* The step's record of a call on the hooks.
HookOp(op, name, callback, r) ==
    [op |-> op, w |-> 0, url |-> NULL, name |-> name, callback |-> callback,
     raised |-> r.raised, invoked |-> r.invoked]

\* HookableMixin.register_hook: each name that is not registered yet is
\* registered with no callback.
RegisterHooks(hooks, names) ==
    HookOutcome([n \in DOMAIN hooks \cup names |->
                    IF n \in DOMAIN hooks THEN hooks[n] ELSE NoCallback],
                "", NoCallback)

\* HookableMixin.unregister_hook: the names are deleted one after the other;
\* the first that is not registered raises KeyError.
RECURSIVE UnregisterHooks(_, _)
UnregisterHooks(hooks, names) ==
    IF names = <<>> THEN HookOutcome(hooks, "", NoCallback)
    ELSE IF Head(names) \notin DOMAIN hooks
    THEN HookOutcome(hooks, "KeyError", NoCallback)
    ELSE UnregisterHooks([n \in DOMAIN hooks \ {Head(names)} |-> hooks[n]],
                         Tail(names))

\* The callback is connected whether the hook has one or not.
ConnectHookOverwriting(hooks, name, callback) ==
    IF name \notin DOMAIN hooks THEN HookOutcome(hooks, "KeyError", NoCallback)
    ELSE HookOutcome([hooks EXCEPT ![name] = callback], "", NoCallback)
\* HookableMixin.connect_hook.
ConnectHook(hooks, name, callback) ==
    IF name \notin DOMAIN hooks THEN HookOutcome(hooks, "KeyError", NoCallback)
    ELSE IF hooks[name] = NoCallback
    THEN HookOutcome([hooks EXCEPT ![name] = callback], "", NoCallback)
    ELSE HookOutcome(hooks, "HookAlreadyConnectedError", NoCallback)

\* HookableMixin.disconnect_hook: the name is set to None, registered or not.
DisconnectHook(hooks, name) ==
    HookOutcome([n \in DOMAIN hooks \cup {name} |->
                    IF n = name THEN NoCallback ELSE hooks[n]],
                "", NoCallback)

\* HookableMixin.call_hook.
CallHook(hooks, name) ==
    IF name \notin DOMAIN hooks THEN HookOutcome(hooks, "KeyError", NoCallback)
    ELSE IF hooks[name] # NoCallback
    THEN HookOutcome(hooks, "", hooks[name])
    ELSE HookOutcome(hooks, "HookDisconnected", NoCallback)

\* Every registered hook counts as connected.
HookConnectedIfRegistered(hooks, name) == name \in DOMAIN hooks
\* What is_hook_connected returns for a registered name: bool() of the entry.
HookConnected(hooks, name) == hooks[name] # NoCallback

\* HookableMixin.is_hook_connected.
IsHookConnected(hooks, name) ==
    IF name \notin DOMAIN hooks THEN HookOutcome(hooks, "KeyError", NoCallback)
    ELSE HookOutcome(hooks, "", NoCallback)

InitHook ==
    /\ seeds = {1}
    /\ url_table = <<NewRow(1, todo)>>
    /\ config \in {c \in Configs : c.retry_connrefused /\ c.concurrent = 1}
    /\ EngineInit
    /\ server = AnyServer
    /\ last = NoOp
    /\ ops = 0

\* One call on the hooks: the dict is as the call left it, and the step's
\* record tells what the call raised and invoked.
HookCall(op, name, callback, r) ==
    /\ callback_hooks' = r.hooks
    /\ last' = HookOp(op, name, callback, r)
    /\ UNCHANGED <<aux_vars, url_table, config, item, seeds, ops, server, ses, errors,
                   exit_code, recorded, engine_vars>>

ApiRegisterHook ==
    \E names \in SUBSET HookNames :
        HookCall("register_hook", "", NoCallback, RegisterHooks(callback_hooks, names))
ApiUnregisterHook ==
    \E S \in SUBSET HookNames : \E names \in Orderings(S) :
        HookCall("unregister_hook", "", NoCallback, UnregisterHooks(callback_hooks, names))
ApiConnectHook ==
    \E name \in HookNames, callback \in Callbacks :
        HookCall("connect_hook", name, callback, ConnectHook(callback_hooks, name, callback))
ApiDisconnectHook ==
    \E name \in HookNames :
        HookCall("disconnect_hook", name, NoCallback, DisconnectHook(callback_hooks, name))
ApiCallHook ==
    \E name \in HookNames :
        HookCall("call_hook", name, NoCallback, CallHook(callback_hooks, name))
ApiIsHookConnected ==
    \E name \in HookNames :
        HookCall("is_hook_connected", name, NoCallback, IsHookConnected(callback_hooks, name))

NextHook ==
    \/ ApiRegisterHook
    \/ ApiUnregisterHook
    \/ ApiConnectHook
    \/ ApiDisconnectHook
    \/ ApiCallHook
    \/ ApiIsHookConnected

SpecHook == InitHook /\ [][NextHook]_vars

\* The hook is registered and has a callback.
HasCallback(name) ==
    name \in DOMAIN callback_hooks /\ callback_hooks[name] # NoCallback
\* The hook is registered and has no callback.
HasNoCallback(name) ==
    name \in DOMAIN callback_hooks /\ callback_hooks[name] = NoCallback

\* C30: a registered hook holds one callback or none; connect_hook on a hook
\* that has a callback raises HookAlreadyConnectedError and leaves the
\* callback that was there, and on a hook without one it connects the
\* callback; call_hook on a hook without a callback raises HookDisconnected
\* and invokes nothing, and on a hook with one it invokes that callback.
OneSubscriber ==
    [][/\ \A n \in DOMAIN callback_hooks' :
            callback_hooks'[n] \in Callbacks \cup {NoCallback}
       /\ last'.op = "connect_hook" =>
            /\ HasCallback(last'.name) =>
                /\ last'.raised = "HookAlreadyConnectedError"
                /\ callback_hooks' = callback_hooks
            /\ HasNoCallback(last'.name) =>
                /\ last'.raised = ""
                /\ callback_hooks' =
                       [callback_hooks EXCEPT ![last'.name] = last'.callback]
       /\ last'.op = "call_hook" =>
            /\ callback_hooks' = callback_hooks
            /\ HasNoCallback(last'.name) =>
                /\ last'.raised = "HookDisconnected"
                /\ last'.invoked = NoCallback
            /\ HasCallback(last'.name) =>
                /\ last'.raised = ""
                /\ last'.invoked = callback_hooks[last'.name]
      ]_vars

\* connect_hook was called with a second callback on a connected hook: the
\* call raised, and the hook still holds the first callback.
SecondConnectRefused ==
    /\ last.op = "connect_hook"
    /\ last.raised = "HookAlreadyConnectedError"
    /\ callback_hooks[last.name] \in Callbacks \ {last.callback}

\* is_hook_connected tells of every registered hook whether call_hook would
\* invoke a callback.
ConnectedIffCallable ==
    \A n \in DOMAIN callback_hooks :
        HookConnected(callback_hooks, n) <=>
            CallHook(callback_hooks, n).invoked # NoCallback

\* register_hook leaves the entry of every name that was registered, and a
\* connect_hook that follows a disconnect_hook of its name connects.
RegisterAndReconnect ==
    /\ last'.op = "register_hook" =>
           \A n \in DOMAIN callback_hooks :
               n \in DOMAIN callback_hooks' /\ callback_hooks'[n] = callback_hooks[n]
    /\ (last.op = "disconnect_hook" /\ last'.op = "connect_hook"
            /\ last'.name = last.name) =>
           /\ last'.raised = ""
           /\ callback_hooks'[last'.name] = last'.callback
           /\ CallHook(callback_hooks', last'.name).invoked = last'.callback

\* C40: after any calls on the hooks, is_hook_connected(name) is true exactly
\* when call_hook(name) would invoke a callback; registering a name again
\* keeps its callback; and connect_hook after disconnect_hook connects.
HookStateConsistent ==
    []ConnectedIffCallable /\ [][RegisterAndReconnect]_vars

\* Two hooks are registered, one connected and one not, right after a
\* register_hook call that found both registered.
ConnectedAndDisconnected ==
    /\ last.op = "register_hook"
    /\ DOMAIN callback_hooks = HookNames
    /\ \E n, m \in HookNames :
        /\ HookConnected(callback_hooks, n)
        /\ ~HookConnected(callback_hooks, m)

\* Worker w takes a record in this step.
TakesRecord(w) ==
    /\ pc[w] \in {"none", "idle"}
    /\ item[w] = NoItem
    /\ item'[w] # NoItem
\* Worker w finds no record in this step: it goes to sleep, or it sleeps
\* already and stops the engine.
FindsNoRecord(w) ==
    \/ pc[w] = "none" /\ pc'[w] = "idle"
    \/ /\ pc[w] = "idle" /\ pc'[w] = "idle"
       /\ ~stopping /\ stopping'
       /\ stop_requested' = stop_requested
       /\ last'.op # "fatal"

\* C39: a worker takes a row in status error only when the table holds no
\* todo row at that moment, and a worker of an engine that is not stopping
\* finds no record only when the table holds neither a todo nor an error row.
TodoBeforeError ==
    [][\A w \in Workers :
        /\ (TakesRecord(w) /\ GetItem(url_table, item'[w].url).status = error) =>
               Candidates(url_table, todo, None) = {}
        /\ (FindsNoRecord(w) /\ ~stopping) =>
               /\ Candidates(url_table, todo, None) = {}
               /\ Candidates(url_table, error, None) = {}
      ]_vars

\* A worker fetches a URL for the second time, taken as an error row, while
\* the other row of the table is no longer todo.
ErrorRowRetaken ==
    /\ Len(url_table) = 2
    /\ Candidates(url_table, todo, None) = {}
    /\ \E w \in Workers :
        /\ pc[w] = "fetch"
        /\ item[w].try_count = 1
        /\ todo_dispatched[item[w].url] = 1

\* ------------------------------------------------- errors of the storage
\* The errors get_and_update can raise besides NotFound (sqlite3.Error, for
\* one a locked database); none has an entry in ERROR_CODE_MAP.
StorageErrors == {"Exception"}

\* Engine._process_input when _get_next_url_record raises: the except clause
\* updates the exit code and stops the engine with force, and the lines after
\* it lower the busy count, which this worker has not raised, and release the
\* semaphore.
LookupRaises(w) ==
    /\ started /\ ~stopping
    /\ \/ pc[w] = "none" /\ CanAcquire(sem) /\ sem' = sem
       \/ pc[w] = "idle" /\ sem' = sem + 1
    /\ \E e \in StorageErrors :
        /\ exit_code' = UpdateExitCode(exit_code, ErrorCode(e))
        /\ recorded' = recorded \cup {ErrorCode(e)}
    /\ stopping' = TRUE
    /\ done_event' = StopSetsDone(done_event, TRUE)
    /\ num_worker_busy' = num_worker_busy - 1
    /\ pc' = [pc EXCEPT ![w] = "none"]
    /\ last' = Op("fatal", w, NULL)
    /\ UNCHANGED <<aux_vars, ses, callback_hooks, url_table, config, started, item, rcs,
                   todo_dispatched, seeds, ops, server, errors, stop_requested>>

\* The crawl of SpecFilter over a storage that may fail.
NextStorage ==
    \/ EngineStart
    \/ \E w \in Workers :
        \/ Dispatch(w)
        \/ Poll(w)
        \/ FetchResponse(w)
        \/ Finish(w)
        \/ LookupRaises(w)

SpecStorage == InitFilter /\ [][NextStorage]_vars

\* C38 as stated: the busy count stays between 0 and the concurrency in
\* every reachable state, also after an exception raised before a record was
\* obtained.
BusyCountInRange ==
    num_worker_busy \in 0..config.concurrent

\* ------------------------------------------- the versions of the hook API
\* One Callbacks object (wpull/hook.py), the script that sets its version,
\* and the hook environment that dispatches wait_time.
MaxSeconds == 2
AVAILABLE_VERSIONS == {2, 3}
\* The numbers a script may try to set the version to.
VersionChoices == 1..4
\* The wait in seconds handed to dispatch_wait_time.
Seconds == 0..MaxSeconds
\* The response and the error of the request: one of the two is None.
ResponseInfos == {"None", "response_info"}
ErrorInfos == {"None", "error_info"}

\* Every version gets the arguments of version 3.
WaitTimeArgsOfV3(v, seconds, url_info, record_info, response_info, error_info) ==
    <<seconds, url_info, record_info, response_info, error_info>>
\* Callbacks.dispatch_wait_time: the arguments bound by functools.partial.
WaitTimeArgs(v, seconds, url_info, record_info, response_info, error_info) ==
    IF v = 2
    THEN <<seconds>>
    ELSE <<seconds, url_info, record_info, response_info, error_info>>
\* The default the dispatcher falls back on when the script has set no
\* wait_time of its own.
WaitTimeDefault(v) ==
    IF v = 2 THEN "CallbacksV2.wait_time" ELSE "CallbacksV3.wait_time"

InitCallbacks == InitHook

\* The step leaves everything but the Callbacks object and its record alone.
CallbacksCall ==
    UNCHANGED <<url_table, config, item, seeds, ops, server, ses, errors,
                exit_code, recorded, engine_vars, callback_hooks,
                waiter, files, pool, app>>

\* The version setter: the assertion raises for an unknown number before the
\* assignment.
SetVersion ==
    /\ \E num \in VersionChoices :
        IF num \in AVAILABLE_VERSIONS
        THEN /\ version' = num
             /\ last' = [op |-> "version", w |-> 0, url |-> NULL,
                         num |-> num, raised |-> ""]
        ELSE /\ version' = version
             /\ last' = [op |-> "version", w |-> 0, url |-> NULL,
                         num |-> num, raised |-> "AssertionError"]
    /\ CallbacksCall

\* dispatch_wait_time, with the script's wait_time or the default; both
\* defaults return the seconds they are given.
DispatchWaitTime ==
    /\ \E seconds \in Seconds, u \in Urls, tries \in 0..MaxTries,
          response_info \in ResponseInfos,
          error_info \in ErrorInfos, scripted \in BOOLEAN :
        /\ (response_info = "None") # (error_info = "None")
        /\ last' = [op |-> "dispatch_wait_time", w |-> 0, url |-> u,
                    try_count |-> tries,
                    seconds |-> seconds, response_info |-> response_info,
                    error_info |-> error_info,
                    func |-> IF scripted THEN "wait_time"
                             ELSE WaitTimeDefault(version),
                    args |-> WaitTimeArgs(version, seconds, "url_info",
                                          "record_info", response_info, error_info)]
    /\ version' = version
    /\ CallbacksCall

NextCallbacks ==
    \/ SetVersion
    \/ DispatchWaitTime

SpecCallbacks == InitCallbacks /\ [][NextCallbacks]_vars

\* C31: the version is 2 or 3 in every state, 2 to begin with; under version
\* 2 the wait_time callback is called with the seconds alone, under version 3
\* with the seconds, the URL info, the record, the response and the error.
WaitTimeArity ==
    /\ version \in {2, 3}
    /\ last.op = "" => version = 2
    /\ last.op = "dispatch_wait_time" =>
        /\ version = 2 => last.args = <<last.seconds>>
        /\ version = 3 =>
               last.args = <<last.seconds, "url_info", "record_info",
                             last.response_info, last.error_info>>
        /\ last.func \in {"wait_time",
                          IF version = 2 THEN "CallbacksV2.wait_time"
                          ELSE "CallbacksV3.wait_time"}

\* Under version 3 the default wait_time of version 3 was called with five
\* arguments, the error among them.
WaitTimeCalledWithFive ==
    /\ version = 3
    /\ last.op = "dispatch_wait_time"
    /\ last.func = "CallbacksV3.wait_time"
    /\ Len(last.args) = 5
    /\ last.args[5] = "error_info"

\* ------------------------------------------------ URLs a hook hands back
\* The get_urls callback of a script returns dicts with a URL and the
\* optional keys inline and replace (hook.py, _scrape_document and
\* _add_hooked_url).  The table's remove_one and the item's add_child_url,
\* which _add_hooked_url calls, are taken from the specification of the
\* table: remove_one deletes the row of the URL, and add_child_url adds the
\* URL as a child of the item, as add_inline_url_infos and
\* add_linked_url_infos do for a scraped one.
RemoveOne(t, u) == SelectSeq(t, LAMBDA row : row.url # u)
AddChildUrl(it, t, u, inline) ==
    IF inline THEN ItemAddInline(it, t, <<u>>) ELSE ItemAddLinked(it, t, <<u>>)

\* The dicts a script may hand back.
HookedUrlDicts == [url : Urls, inline : BOOLEAN, replace : BOOLEAN]

\* HookEnvironment._add_hooked_url.
AddHookedUrl(it, t, d) ==
    AddChildUrl(it, IF d.replace THEN RemoveOne(t, d.url) ELSE t, d.url, d.inline)

\* A row as a run leaves it in the given status: a fetched one has counted a
\* try, a done one has its status code.
LeftRow(u, status) ==
    [NewRow(u, status) EXCEPT
        !.try_count = IF status \in {done, error} THEN 1 ELSE 0,
        !.status_code = IF status = done THEN 200 ELSE NULL]

\* The seed is still to be taken; the table may hold URL 2 from an earlier
\* run, in any status.
InitHookedUrl ==
    /\ seeds = {1}
    /\ url_table \in {<<NewRow(1, todo)>>} \cup
                     {<<NewRow(1, todo), LeftRow(2, status)>> : status \in Status}
    /\ config = [retry_connrefused |-> FALSE, retry_dns_error |-> FALSE,
                 concurrent |-> 1, max_level |-> MaxLevel]
    /\ EngineInit
    /\ server = AnyServer
    /\ last = NoOp
    /\ ops = 0

\* _scrape_document hands one dict of the script to _add_hooked_url, with
\* the item of the session.
ApiAddHookedUrl ==
    /\ item[1] # NoItem
    /\ \E d \in HookedUrlDicts :
        /\ url_table' = AddHookedUrl(item[1], url_table, d)
        /\ last' = [op |-> "add_hooked_url", w |-> 1, url |-> d.url,
                    inline |-> d.inline, replace |-> d.replace,
                    parent |-> item[1]]
    /\ UNCHANGED item
    /\ Called("add_hooked_url")

NextHookedUrl ==
    \/ ApiAddHookedUrl
    \/ ApiSetStatus
    \/ ApiSetValue
    \/ ApiGetAndUpdate

SpecHookedUrl == InitHookedUrl /\ [][NextHookedUrl]_vars

\* The attributes a child of the item is added with.
IsChildOf(row, it, inline) ==
    /\ row.level = it.level + 1
    /\ row.referrer = it.url
    /\ row.top_url = (IF it.top_url # NULL THEN it.top_url ELSE it.url)
    /\ row.inline = (IF inline THEN 1 ELSE NULL)

\* What holds of a URL a hook hands back: without replace it leaves the
\* status, the try count and the status code of a row the table already has for it; with
\* replace the row is deleted and the URL is in the table once more as a new
\* row: todo, no try counted, no status code, and the attributes of a child
\* of the item.  A URL the table does not have is added as such a row.
HookedUrlReplace ==
    [][last'.op = "add_hooked_url" /\ ops' = ops + 1 =>
        LET u == last'.url
            new == GetItem(url_table', u)
        IN  /\ Cardinality(RowIndexes(url_table', u)) = 1
            /\ (HasUrl(url_table, u) /\ ~last'.replace) =>
                   /\ new.status = GetItem(url_table, u).status
                   /\ new.try_count = GetItem(url_table, u).try_count
                   /\ new.status_code = GetItem(url_table, u).status_code
                   /\ Len(url_table') = Len(url_table)
            /\ (~HasUrl(url_table, u) \/ last'.replace) =>
                   /\ new.status = todo
                   /\ new.try_count = 0
                   /\ new.status_code = NULL
                   /\ IsChildOf(new, last'.parent, last'.inline)
                   /\ url_table'[Len(url_table')] = new
      ]_vars

\* A script has had the row of a URL that was done replaced: the row is the
\* last of the table, todo, with no status code.
DoneRowReplaced ==
    /\ last.op = "add_hooked_url"
    /\ last.replace
    /\ last.url = 2
    /\ Len(url_table) = 2
    /\ url_table[2].url = 2
    /\ url_table[2].status = todo
    /\ url_table[2].referrer = 1
    /\ url_table[1].status = done

\* C32 as stated: a URL a hook hands back without replace is ignored when the
\* table has a row for it, which stays as it is, its status not reset; with
\* replace the row is deleted and the URL is in the table as a new todo row
\* with the attributes of a child of the item.
HookedUrlIgnored ==
    [][last'.op = "add_hooked_url" /\ ops' = ops + 1 =>
        LET u == last'.url
            new == GetItem(url_table', u)
        IN  /\ Cardinality(RowIndexes(url_table', u)) = 1
            /\ (HasUrl(url_table, u) /\ ~last'.replace) =>
                   url_table' = url_table
            /\ (HasUrl(url_table, u) /\ last'.replace) =>
                   /\ new.status = todo
                   /\ new.try_count = 0
                   /\ IsChildOf(new, last'.parent, last'.inline)
      ]_vars

\* ------------------------------------------------ a series of pipelines
\* The series of test_pipeline_skipping (application/app_test.py): each
\* pipeline has a source of ItemsPerSource numbers and one task, the first
\* pipeline is never skippable, and Application.stop may be called from the
\* task of the first pipeline.  Application, PipelineSeries and Pipeline are
\* not under src/; what they do with a stop is taken from the specification
\* and from what the test expects: a stop makes the running pipeline take no
\* further item, a following pipeline that is skippable is passed over
\* while the application is stopping, and one that is not is run in full.
NumPipelines == 3
ItemsPerSource == 3
Pipelines == 1..NumPipelines

\* MyItemSource.__init__ for pipeline p: values = [1, 2, 3], [4, 5, 6], ...
SourceValues(p) == [i \in 1..ItemsPerSource |-> (p - 1) * ItemsPerSource + i]

\* get_item hands out the first value and leaves the list as it is.
SourceGetItemKeeping(values) ==
    IF values # <<>> THEN [item |-> Head(values), values |-> values]
    ELSE [item |-> NULL, values |-> values]
\* MyItemSource.get_item: values.pop(0), or None when the list is empty.
SourceGetItem(values) ==
    IF values # <<>> THEN [item |-> Head(values), values |-> Tail(values)]
    ELSE [item |-> NULL, values |-> values]

\* Pipeline(source, [task]) as constructed.
NewPipeline(p, skippable) ==
    [values |-> SourceValues(p), skippable |-> skippable, state |-> "ready",
     busy |-> NULL, processed |-> {}]

\* Application(PipelineSeries([...])) with the skippable flags set.
Applications ==
    {[state |-> "ready", current |-> 1, stopped_in |-> 0,
      pipelines |-> [p \in Pipelines |-> NewPipeline(p, p # 1 /\ flags[p])]] :
        flags \in [Pipelines -> BOOLEAN]}

InitApp ==
    /\ seeds = {1}
    /\ url_table = <<NewRow(1, todo)>>
    /\ config \in {c \in Configs : c.retry_connrefused /\ c.concurrent = 1}
    /\ started = FALSE
    /\ stopping = FALSE
    /\ done_event = FALSE
    /\ num_worker_busy = 0
    /\ pc = [w \in Workers |-> "none"]
    /\ item = [w \in Workers |-> NoItem]
    /\ rcs = [w \in Workers |-> "none"]
    /\ todo_dispatched = [u \in Urls |-> 0]
    /\ sem = config.concurrent
    /\ exit_code = 0
    /\ recorded = {}
    /\ errors = {}
    /\ stop_requested = ""
    /\ ses = NoSession
    /\ callback_hooks = NoHooks
    /\ version = 2
    /\ waiter = NoWaiter
    /\ files = NoFiles
    /\ pool = NoPool
    /\ app \in Applications
    /\ server = AnyServer
    /\ last = NoOp
    /\ ops = 0

\* The step changes the application alone.
AppStep ==
    UNCHANGED <<url_table, config, item, seeds, ops, server, ses, errors,
                exit_code, recorded, engine_vars, callback_hooks, last,
                version, waiter, files, pool>>

CurrentPipeline == app.pipelines[app.current]

\* Application.run comes to the next pipeline of the series: it is passed
\* over when it is skippable and the application is stopping, and run
\* otherwise; after the last the application is done.
AppNextPipeline ==
    /\ app.state \in {"ready", "running", "stopping"}
    /\ app.current \in Pipelines
    /\ CurrentPipeline.state = "ready"
    /\ IF CurrentPipeline.skippable /\ app.state = "stopping"
       THEN app' = [app EXCEPT !.pipelines[app.current].state = "skipped",
                               !.current = @ + 1]
       ELSE app' = [app EXCEPT !.pipelines[app.current].state = "running",
                               !.state = IF @ = "ready" THEN "running" ELSE @]
    /\ AppStep

\* The pipeline's worker asks the source for an item.
PipelineGetItem ==
    /\ app.current \in Pipelines
    /\ CurrentPipeline.state = "running"
    /\ CurrentPipeline.busy = NULL
    /\ LET got == SourceGetItem(CurrentPipeline.values)
       IN  /\ got.item # NULL
           /\ app' = [app EXCEPT !.pipelines[app.current].values = got.values,
                                 !.pipelines[app.current].busy = got.item]
    /\ AppStep

\* MyItemTask.process on the item taken; the callback of the first
\* pipeline's task may call Application.stop, which stops the application
\* and the pipeline that is running.
PipelineProcess ==
    /\ app.current \in Pipelines
    /\ CurrentPipeline.busy # NULL
    /\ \E stop \in BOOLEAN :
        /\ stop => app.current = 1 /\ app.state = "running"
        /\ app' = [app EXCEPT
               !.pipelines[app.current].busy = NULL,
               !.pipelines[app.current].processed = @ \cup {CurrentPipeline.busy},
               !.pipelines[app.current].state = IF stop THEN "stopping" ELSE @,
               !.state = IF stop THEN "stopping" ELSE @,
               !.stopped_in = IF stop THEN app.current ELSE @]
    /\ AppStep

\* The pipeline ends: its source has no item left, or it is stopping; the
\* series goes on with the next pipeline.
PipelineEnd ==
    /\ app.current \in Pipelines
    /\ CurrentPipeline.busy = NULL
    /\ \/ CurrentPipeline.state = "running"
          /\ SourceGetItem(CurrentPipeline.values).item = NULL
       \/ CurrentPipeline.state = "stopping"
    /\ app' = [app EXCEPT !.pipelines[app.current].state = "done",
                          !.current = @ + 1]
    /\ AppStep

\* Application.run returns after the last pipeline.
AppDone ==
    /\ app.current = NumPipelines + 1
    /\ app.state # "done"
    /\ app' = [app EXCEPT !.state = "done"]
    /\ AppStep

NextApp ==
    \/ AppNextPipeline
    \/ PipelineGetItem
    \/ PipelineProcess
    \/ PipelineEnd
    \/ AppDone

SpecApp == InitApp /\ [][NextApp]_vars

\* The items of pipeline p's source that no worker has taken.
Unprocessed(p) == {app.pipelines[p].values[i] : i \in DOMAIN app.pipelines[p].values}
\* The items pipeline p was constructed with.
AllItems(p) == {SourceValues(p)[i] : i \in 1..ItemsPerSource}

\* C33: once Application.stop was called while the first pipeline was
\* running, that pipeline takes no further item (what its source held at the
\* stop stays there), every following pipeline that is skippable takes no
\* item from its source, and every following pipeline that is not skippable
\* has processed all items of its source when the application is done.
PipelineSkipping ==
    /\ \A p \in Pipelines :
        /\ Unprocessed(p) \cap app.pipelines[p].processed = {}
        /\ Unprocessed(p) \cup app.pipelines[p].processed
              \cup (IF app.pipelines[p].busy # NULL THEN {app.pipelines[p].busy} ELSE {})
                  = AllItems(p)
    /\ app.stopped_in = 1 =>
        /\ app.pipelines[1].busy = NULL
        /\ app.pipelines[1].state \in {"stopping", "done"}
        /\ \A p \in Pipelines \ {1} :
            /\ app.pipelines[p].skippable =>
                   /\ Unprocessed(p) = AllItems(p)
                   /\ app.pipelines[p].state \in {"ready", "skipped"}
            /\ (~app.pipelines[p].skippable /\ app.state = "done") =>
                   /\ Unprocessed(p) = {}
                   /\ app.pipelines[p].processed = AllItems(p)
    /\ app.state = "done" =>
           \A p \in Pipelines : app.pipelines[p].state \in {"done", "skipped"}

\* The run of the test: stopped at the first item of the first pipeline,
\* which leaves two items; the second pipeline skipped with its three items;
\* the third run in full.
StoppedSkippedProcessed ==
    /\ app.state = "done"
    /\ app.stopped_in = 1
    /\ Len(app.pipelines[1].values) = ItemsPerSource - 1
    /\ app.pipelines[2].state = "skipped"
    /\ Len(app.pipelines[2].values) = ItemsPerSource
    /\ ~app.pipelines[3].skippable
    /\ app.pipelines[3].values = <<>>

\* ------------------------------------------------ the connection pool
\* The pool of one host (ConnectionPool and HostPool, wpull/network/pool.py)
\* and NumTasks coroutines that acquire a connection for the host and
\* release it, as the sessions of network/pool_test.py do.  The pool is not
\* under src/: that an acquire waits while max_host_count connections are in
\* use, and that a released connection is handed out again, is taken from
\* the specification and from what the tests expect.
MaxHostCount == 2
NumTasks == MaxHostCount + 1
Tasks == 1..NumTasks
\* The connections the pool may come to create, by number.
Connections == 1..NumTasks

\* HostPool.count: the connections of the host, ready or in use.
HostPoolCount(p) == Cardinality(p.ready \cup {b[2] : b \in p.busy})
\* A host pool that never counts as full.
HostPoolNeverFull(p) == FALSE
\* No connection is ready and max_host_count connections are in use: the
\* acquire of test_host_max_limit does not complete.
HostPoolFull(p) == p.ready = {} /\ HostPoolCount(p) >= MaxHostCount

\* The connection an acquire returns: one that is ready, or else a new one.
AcquiredConnections(p) ==
    IF p.ready # {} THEN p.ready
    ELSE {CHOOSE c \in Connections :
             /\ c \notin {b[2] : b \in p.busy}
             /\ \A d \in Connections : d < c => d \in {b[2] : b \in p.busy}}

InitPool == InitHook

\* The step changes the pool alone.
PoolStep ==
    UNCHANGED <<url_table, config, item, seeds, ops, server, ses, errors,
                exit_code, recorded, engine_vars, callback_hooks,
                version, waiter, files, app>>

\* Task t holds a connection.
Holds(t) == \E b \in pool.busy : b[1] = t

\* pool.acquire(host, port) by task t, new or woken from its wait: it returns
\* a connection, or waits while the host pool is full.
PoolAcquire(t) ==
    /\ ~Holds(t)
    /\ IF HostPoolFull(pool)
       THEN /\ t \notin pool.waiting
            /\ pool' = [pool EXCEPT !.waiting = @ \cup {t}]
            /\ last' = [op |-> "wait", w |-> t, url |-> NULL, connection |-> 0]
       ELSE \E c \in AcquiredConnections(pool) :
            /\ pool' = [pool EXCEPT !.ready = @ \ {c},
                                    !.busy = @ \cup {<<t, c>>},
                                    !.waiting = @ \ {t}]
            /\ last' = [op |-> "acquire", w |-> t, url |-> NULL, connection |-> c]
    /\ PoolStep

\* pool.release(connection) by the task that holds it (the end of a
\* session's with block).
PoolRelease(t) ==
    /\ \E b \in pool.busy :
        /\ b[1] = t
        /\ pool' = [pool EXCEPT !.busy = @ \ {b}, !.ready = @ \cup {b[2]}]
        /\ last' = [op |-> "release", w |-> t, url |-> NULL, connection |-> b[2]]
    /\ PoolStep

\* pool.clean(): the connections that are ready are closed and dropped.
PoolClean ==
    /\ pool.ready # {}
    /\ pool' = [pool EXCEPT !.ready = {}]
    /\ last' = [op |-> "clean", w |-> 0, url |-> NULL, connection |-> 0]
    /\ PoolStep

NextPool ==
    \/ \E t \in Tasks : PoolAcquire(t)
    \/ \E t \in Tasks : PoolRelease(t)
    \/ PoolClean

SpecPool == InitPool /\ [][NextPool]_vars

\* At most max_host_count connections of the host, in use or ready, each in
\* use by one task; a task waits only while the host pool is full or until it
\* is woken.
HostPoolBounded ==
    /\ Cardinality(pool.busy) <= MaxHostCount
    /\ HostPoolCount(pool) <= MaxHostCount
    /\ pool.ready \cap {b[2] : b \in pool.busy} = {}
    /\ \A a, b \in pool.busy : (a[1] = b[1] \/ a[2] = b[2]) => a = b
    /\ \A t \in pool.waiting : ~Holds(t)

\* An acquire completes only when fewer than max_host_count connections are
\* in use, and takes a ready connection when there is one, which adds none.
AcquireWithinLimit ==
    last'.op = "acquire" /\ pool' # pool =>
        /\ Cardinality(pool.busy) < MaxHostCount
        /\ pool.ready # {} =>
               /\ last'.connection \in pool.ready
               /\ HostPoolCount(pool') = HostPoolCount(pool)

\* C34: the host pool never has more than max_host_count connections checked
\* out nor more than max_host_count connections in all; an acquire made while
\* max_host_count are in use completes only after a release; and a released
\* connection is reused rather than a new one added.
HostMaxLimit ==
    []HostPoolBounded /\ [][AcquireWithinLimit]_vars

\* max_host_count connections are in use and the third task waits for one.
ThirdAcquireWaits ==
    /\ Cardinality(pool.busy) = MaxHostCount
    /\ pool.waiting # {}
    /\ last.op = "wait"

\* ------------------------------------------------ the file writer
\* The file writer sessions of NumWriterSessions web sessions whose URLs the
\* path namer gives one filename (the same URL, or two URLs that end in the
\* same segment), run by concurrent workers.  A path is a number: 1 is the
\* filename the path namer returns, i + 1 is that filename with suffix .i.
NumWriterSessions == 2
WriterSessions == 1..NumWriterSessions
\* The paths of the model: enough of them that one is always free.
Paths == 1..(2 * NumWriterSessions + 1)
\* The files the directory may hold before the run.
ExistingFiles == SUBSET (1..NumWriterSessions)
\* OverwriteFileWriter and AntiClobberFileWriter.
WriterKinds == {"overwrite", "anti_clobber"}
\* The status codes the server answers the sessions with.
WriterCodes == {200, 206, 304, 301, 404, 500}

\* BaseFileWriterSession._compute_filename and its override in
\* AntiClobberFileWriterSession: the path namer's filename, or the first of
\* name, name.1, name.2, ... for which os.path.exists is false.
ComputeFilename(kind, disk) ==
    IF kind = "anti_clobber"
    THEN CHOOSE p \in Paths :
             /\ p \notin disk
             /\ \A q \in Paths : q < p => q \in disk
    ELSE 1

\* BaseFileWriterSession.__init__.
NewWriterSession ==
    [pc |-> "new", filename |-> NULL, code |-> 0, opened |-> FALSE,
     returned |-> NULL, redirects |-> 0]

\* BaseFileWriterSession.process_response: whether it opens the file, which
\* creates it.
OpensFile(continuing, code) ==
    IF continuing THEN code = 206
    ELSE (200 <= code /\ code <= 299) \/ 400 <= code

\* _process_file_continue_response raises IOError on any code but 206.
ContinueRaises(continuing, code) == continuing /\ code # 206

InitWriter ==
    /\ seeds = {1}
    /\ url_table = <<NewRow(1, todo)>>
    /\ config \in {c \in Configs : c.retry_connrefused /\ c.concurrent = 1}
    /\ started = FALSE
    /\ stopping = FALSE
    /\ done_event = FALSE
    /\ num_worker_busy = 0
    /\ pc = [w \in Workers |-> "none"]
    /\ item = [w \in Workers |-> NoItem]
    /\ rcs = [w \in Workers |-> "none"]
    /\ todo_dispatched = [u \in Urls |-> 0]
    /\ sem = config.concurrent
    /\ exit_code = 0
    /\ recorded = {}
    /\ errors = {}
    /\ stop_requested = ""
    /\ ses = NoSession
    /\ callback_hooks = NoHooks
    /\ version = 2
    /\ waiter = NoWaiter
    /\ pool = NoPool
    /\ app = NoApp
    /\ ops = 0
    /\ server = AnyServer
    /\ last = NoOp
    /\ \E kind \in WriterKinds, continuing \in BOOLEAN, disk \in ExistingFiles :
        files = [disk |-> disk, kind |-> kind, continuing |-> continuing,
                 sessions |-> [s \in WriterSessions |-> NewWriterSession]]

\* The step changes the files and the writer sessions alone.
WriterStep ==
    UNCHANGED <<url_table, config, item, seeds, ops, server, ses, errors,
                exit_code, recorded, engine_vars, callback_hooks,
                version, waiter, pool, app, last>>

\* process_request of session s, for its first request and for the request
\* that follows a redirect: the filename is computed once.
WriterProcessRequest(s) ==
    LET session == files.sessions[s] IN
    /\ session.pc \in {"new", "redirected"}
    /\ files' = [files EXCEPT
          !.sessions[s].pc = "requested",
          !.sessions[s].filename =
              IF session.filename = NULL
              THEN ComputeFilename(files.kind, files.disk)
              ELSE session.filename]
    /\ WriterStep

\* The response factory of _new_response_factory: the response header has
\* arrived and process_response is called with it.
WriterProcessResponse(s) ==
    LET session == files.sessions[s] IN
    /\ session.pc = "requested"
    /\ \E code \in WriterCodes :
        /\ code \in RedirectCodes => session.redirects < MaxRedirect
        /\ IF ContinueRaises(files.continuing, code)
           THEN files' = [files EXCEPT !.sessions[s].pc = "raised",
                                       !.sessions[s].code = code]
           ELSE files' = [files EXCEPT
                    !.disk = IF OpensFile(files.continuing, code)
                             THEN @ \cup {session.filename} ELSE @,
                    !.sessions[s].opened = OpensFile(files.continuing, code),
                    !.sessions[s].pc = "responded",
                    !.sessions[s].code = code]
    /\ WriterStep

\* The fetch raises a NetworkError or ProtocolError: _handle_error, which
\* does not call the writer session.
WriterFetchError(s) ==
    /\ files.sessions[s].pc = "requested"
    /\ files' = [files EXCEPT !.sessions[s].pc = "error"]
    /\ WriterStep

\* _handle_response once the body is read: a redirect goes on to the next
\* request, a document is saved, anything else is discarded.
WriterHandleResponse(s) ==
    LET session == files.sessions[s]
        exists == session.filename # NULL /\ session.filename \in files.disk
    IN
    /\ session.pc = "responded"
    /\ files' =
          IF session.code \in RedirectCodes
          THEN [files EXCEPT !.sessions[s].pc = "redirected",
                             !.sessions[s].redirects = @ + 1]
          ELSE IF session.code \in DOCUMENT_STATUS_CODES
          THEN [files EXCEPT !.sessions[s].pc = "done",
                             !.sessions[s].returned =
                                 IF exists THEN session.filename ELSE NULL]
          ELSE [files EXCEPT
                   !.disk = @ \ {session.filename},
                   !.sessions[s].pc =
                       IF session.code \in NO_DOCUMENT_STATUS_CODES
                       THEN "skipped" ELSE "error"]
    /\ WriterStep

NextWriter ==
    \/ \E s \in WriterSessions : WriterProcessRequest(s)
    \/ \E s \in WriterSessions : WriterProcessResponse(s)
    \/ \E s \in WriterSessions : WriterFetchError(s)
    \/ \E s \in WriterSessions : WriterHandleResponse(s)

SpecWriter == InitWriter /\ [][NextWriter]_vars

\* What holds of the filename: process_request picks the first of name,
\* name.1, ... that is not on disk at that moment.
FirstFreeFilename ==
    \A s \in WriterSessions :
        /\ files.kind = "anti_clobber"
        /\ files.sessions[s].pc = "new"
        /\ files'.sessions[s].pc = "requested"
        => /\ files'.sessions[s].filename \notin files.disk
           /\ \A q \in Paths : q < files'.sessions[s].filename => q \in files.disk
FirstFreeFilenameSteps == [][FirstFreeFilename]_vars

\* C35 (as stated): with the anti-clobber writer no two sessions, concurrent
\* ones included, open the same path for writing.
NoSharedPath ==
    files.kind = "anti_clobber" =>
        \A s, t \in WriterSessions :
            /\ s # t
            /\ files.sessions[s].opened
            /\ files.sessions[t].opened
            => files.sessions[s].filename # files.sessions[t].filename

\* Two anti-clobber sessions, one after the other, write to name and name.1.
SequentialSessionsApart ==
    /\ files.kind = "anti_clobber"
    /\ \E s, t \in WriterSessions :
        /\ files.sessions[s].pc = "done"
        /\ files.sessions[t].pc = "done"
        /\ files.sessions[s].opened
        /\ files.sessions[t].opened
        /\ files.sessions[s].filename # files.sessions[t].filename

\* C36 (as stated): after a skipped or error response no file is left at the
\* session's filename; after a done response for which the file was opened
\* the file is there and save_document has returned its name; and with file
\* continuing off a 3xx response does not open the file.
DocumentKeptOrDiscarded ==
    \A s \in WriterSessions :
        LET session == files.sessions[s] IN
        /\ session.pc = "done" /\ session.opened =>
               session.returned = session.filename
        /\ ~files.continuing /\ session.code \in 300..399 => ~session.opened

\* What holds of a discard, and of a save when no other session shares the
\* path: the file is gone, or is there and its name returned.
DiscardAndSave ==
    \A s \in WriterSessions :
        LET session == files.sessions[s] IN
        /\ session.pc = "responded" /\ files'.sessions[s].pc \in {"skipped", "error"}
           => session.filename \notin files'.disk
        /\ /\ files'.sessions[s].pc = "done" /\ session.pc = "responded"
           /\ session.opened
           /\ \A t \in WriterSessions \ {s} :
                  files.sessions[t].filename # session.filename
           => /\ session.filename \in files'.disk
              /\ files'.sessions[s].returned = session.filename
DiscardAndSaveSteps == [][DiscardAndSave]_vars

\* A session's document was opened and saved, yet save_document returned
\* nothing: another session discarded the file in between.
SavedFileGone ==
    \E s \in WriterSessions :
        /\ files.sessions[s].pc = "done"
        /\ files.sessions[s].opened
        /\ files.sessions[s].returned = NULL

\* ------------------------------------------------ the shared waiter
\* The one waiter of the processor (WebProcessor.waiter) and the sessions of
\* the concurrent workers that reset it, increment it and read it.  The
\* waiter's class (LinearWaiter, wpull/waiter.py) is not under src/: its value
\* is modelled, with a base wait of zero, as the number of increments since
\* the last reset, capped at MaxWaiter (the maximum wait).
MaxWaiter == 3

\* LinearWaiter.increment, reset and get.
WaiterIncrement(current) == IF current < MaxWaiter THEN current + 1 ELSE MaxWaiter
WaiterReset(current) == 0
WaiterGet(current) == current

\* What a session may be answered with: a status code, or an error the fetch
\* raises.
WaiterOutcomes ==
    [kind : {"response"}, code : WriterCodes, error : {""}]
        \cup [kind : {"error"}, code : {0}, error : FetchErrors]

\* _handle_response: the waiter after the handler the response is given to.
WaiterAfterResponse(current, code) ==
    IF code \in RedirectCodes THEN WaiterReset(current)
    ELSE IF code \in DOCUMENT_STATUS_CODES THEN WaiterReset(current)
    ELSE IF code \in NO_DOCUMENT_STATUS_CODES THEN WaiterReset(current)
    ELSE WaiterIncrement(current)

\* An error handler that leaves the waiter alone when the item is skipped.
WaiterAfterErrorUnlessSkipped(current, e, cfg) ==
    IF ErrorStatus(e, cfg) = skipped THEN current ELSE WaiterIncrement(current)
\* _handle_error: the waiter is incremented before the error is looked at.
WaiterAfterError(current, e, cfg) == WaiterIncrement(current)

\* The status the handler sets on the item ("" for a redirect, which sets
\* none).
WaiterItemStatus(o, cfg) ==
    IF o.kind = "error" THEN ErrorStatus(o.error, cfg)
    ELSE IF o.code \in RedirectCodes THEN ""
    ELSE IF o.code \in DOCUMENT_STATUS_CODES THEN done
    ELSE IF o.code \in NO_DOCUMENT_STATUS_CODES THEN skipped
    ELSE error

\* A session about to fetch: own counts its own errors since its last
\* response that was none, slept is the delay of its last sleep.
NewWaiterSession == [pc |-> "fetch", own |-> 0, slept |-> 0]

InitWaiter ==
    /\ seeds = {1}
    /\ url_table = <<NewRow(1, todo)>>
    /\ config \in {c \in Configs : c.concurrent = NumWorkers}
    /\ started = FALSE
    /\ stopping = FALSE
    /\ done_event = FALSE
    /\ num_worker_busy = 0
    /\ pc = [w \in Workers |-> "none"]
    /\ item = [w \in Workers |-> NoItem]
    /\ rcs = [w \in Workers |-> "none"]
    /\ todo_dispatched = [u \in Urls |-> 0]
    /\ sem = config.concurrent
    /\ exit_code = 0
    /\ recorded = {}
    /\ errors = {}
    /\ stop_requested = ""
    /\ ses = NoSession
    /\ callback_hooks = NoHooks
    /\ version = 2
    /\ files = NoFiles
    /\ pool = NoPool
    /\ app = NoApp
    /\ ops = 0
    /\ server = AnyServer
    /\ last = NoOp
    /\ waiter = [current |-> 0, sessions |-> [w \in Workers |-> NewWaiterSession]]

\* The step changes the waiter and its sessions alone.
WaiterStep ==
    UNCHANGED <<url_table, config, item, seeds, ops, server, ses, errors,
                exit_code, recorded, engine_vars, callback_hooks,
                version, files, pool, app>>

\* _process_one of worker w's session: the fetch ends with a response or an
\* error and its handler resets or increments the waiter.
WaiterHandle(w) ==
    /\ waiter.sessions[w].pc = "fetch"
    /\ \E o \in WaiterOutcomes :
        LET after == IF o.kind = "error"
                     THEN WaiterAfterError(waiter.current, o.error, config)
                     ELSE WaiterAfterResponse(waiter.current, o.code)
            failed == WaiterItemStatus(o, config) = error \/ o.kind = "error"
        IN
        /\ waiter' = [waiter EXCEPT
              !.current = after,
              !.sessions[w].pc = "handled",
              !.sessions[w].own = IF failed THEN WaiterIncrement(@) ELSE 0]
        /\ last' = [op |-> "handle", w |-> w, url |-> NULL, outcome |-> o,
                    status |-> WaiterItemStatus(o, config)]
    /\ WaiterStep

\* process, after _process_one has returned: wait_time = waiter.get(), and
\* the session sleeps that long before its next request (or the worker
\* before its next item).
WaiterSleep(w) ==
    /\ waiter.sessions[w].pc = "handled"
    /\ waiter' = [waiter EXCEPT
          !.sessions[w].pc = "fetch",
          !.sessions[w].slept = WaiterGet(waiter.current)]
    /\ last' = [op |-> "sleep", w |-> w, url |-> NULL, outcome |-> NULL,
                status |-> ""]
    /\ WaiterStep

NextWaiter ==
    \/ \E w \in Workers : WaiterHandle(w)
    \/ \E w \in Workers : WaiterSleep(w)

SpecWaiter == InitWaiter /\ [][NextWaiter]_vars

\* A handler resets the waiter for a document, a permanent skip and a
\* redirect, and increments it for a server error and for any fetch error,
\* whatever status the item gets.
WaiterResetOrIncremented ==
    last'.op = "handle" /\ waiter'.sessions # waiter.sessions =>
        LET o == last'.outcome IN
        IF o.kind = "response"
              /\ (o.code \in RedirectCodes \/ last'.status \in {done, skipped})
        THEN waiter'.current = 0
        ELSE waiter'.current = WaiterIncrement(waiter.current)

\* The delay a session sleeps is the value the shared waiter has when the
\* session reads it.
SleepsWaiterValue ==
    \A w \in Workers :
        waiter.sessions[w].pc = "handled" /\ waiter'.sessions[w].pc = "fetch"
            => waiter'.sessions[w].slept = waiter.current

\* C37: the shared waiter is reset after every document, permanent-skip and
\* redirect response and incremented after every server-error response and
\* every fetch error, skipped ones included; the delay a session sleeps is
\* the waiter's value at that moment, whichever sessions' errors made it.
SharedWaiter ==
    [][WaiterResetOrIncremented /\ SleepsWaiterValue]_vars

\* A session that failed sleeps longer than its own consecutive errors
\* account for: the errors of the other session are in the delay.
SleptForOthersErrors ==
    \E w \in Workers :
        /\ last.op = "sleep" /\ last.w = w
        /\ waiter.sessions[w].slept > waiter.sessions[w].own
        /\ waiter.sessions[w].own > 0

====
